---- MODULE Spec2Model ----
(***************************************************************************)
(* A model of proref (Professional Referencing & Rig UI): the version      *)
(* utilities, the library batch operations, the headless link fixer and    *)
(* the override health check and repair.                                   *)
(*                                                                         *)
(* Text (file names, paths, search strings) is a sequence of one-character *)
(* strings, so that the regular expressions, the globbing and the          *)
(* substring replacement of the code are computed character by character.  *)
(***************************************************************************)
EXTENDS Integers, Sequences, FiniteSets, TLC

VARIABLES
    vcall,      \* the last call of a VersionUtils function: its arguments and result
    listing,    \* the files on disk, in directory-traversal order
    libraries,  \* bpy.data.libraries: name -> [filepath]
    registry,   \* settings.linked_libraries: sequence of LinkedLibraryData
    bcall,      \* the last batch / headless operator call: arguments, counts, pre-state
    objects,    \* bpy.data.objects: name -> object record
    texts,      \* bpy.data.texts: the names of the text datablocks
    rcall       \* the last health / repair call: arguments and what it reported

vars == <<vcall, listing, libraries, registry, bcall, objects, texts, rcall>>

(***************************************************************************)
(* Characters and numbers                                                  *)
(***************************************************************************)

\* Python's None, where the code returns "int or None"
None == -1

Digits == <<"0", "1", "2", "3", "4", "5", "6", "7", "8", "9">>

IsDigit(c) == \E i \in 1..10 : Digits[i] = c

DigitValue(c) == (CHOOSE i \in 1..10 : Digits[i] = c) - 1

\* re.IGNORECASE, on the letters the patterns contain
UpperLetters == <<"V", "E", "R", "S", "I", "O", "N">>

LowerLetters == <<"v", "e", "r", "s", "i", "o", "n">>

Lower(c) ==
    IF \E i \in 1..7 : UpperLetters[i] = c
    THEN LowerLetters[CHOOSE i \in 1..7 : UpperLetters[i] = c]
    ELSE c

\* int(match.group(1))
RECURSIVE ParseInt(_)
ParseInt(ds) ==
    IF ds = <<>> THEN 0
    ELSE ParseInt(SubSeq(ds, 1, Len(ds) - 1)) * 10 + DigitValue(ds[Len(ds)])

RECURSIVE DecimalDigits(_)
DecimalDigits(n) ==
    IF n < 10 THEN <<Digits[n + 1]>>
    ELSE DecimalDigits(n \div 10) \o <<Digits[(n % 10) + 1]>>

\* f"{version_number:02d}"
Format02d(n) == IF n < 10 THEN <<"0">> \o DecimalDigits(n) ELSE DecimalDigits(n)

(***************************************************************************)
(* Paths: os.path and pathlib.Path                                         *)
(***************************************************************************)

\* index of the last "/" of p, 0 when there is none
LastSlash(p) ==
    IF \E i \in 1..Len(p) : p[i] = "/"
    THEN CHOOSE i \in 1..Len(p) : p[i] = "/" /\ \A j \in (i + 1)..Len(p) : p[j] # "/"
    ELSE 0

\* os.path.basename
Basename(p) == SubSeq(p, LastSlash(p) + 1, Len(p))

\* os.path.dirname
Dirname(p) == SubSeq(p, 1, LastSlash(p) - 1)

\* Path(p).suffix: rfind('.') at i with 0 < i < len(name) - 1 (0-based)
PathSuffix(p) ==
    LET name == Basename(p)
        n == Len(name)
        i == IF \E k \in 1..n : name[k] = "."
             THEN CHOOSE k \in 1..n : name[k] = "." /\ \A j \in (k + 1)..n : name[j] # "."
             ELSE 0
    IN  IF i > 1 /\ i < n THEN SubSeq(name, i, n) ELSE <<>>

\* Path(p).stem
PathStem(p) ==
    LET name == Basename(p)
    IN  SubSeq(name, 1, Len(name) - Len(PathSuffix(p)))

\* str(Path(p).parent / name)
JoinParent(p, name) == SubSeq(p, 1, LastSlash(p)) \o name

(***************************************************************************)
(* VersionUtils: the patterns                                              *)
(***************************************************************************)

\* (regular expression, identifier): sep is the leading character class, word the
\* letters after it, dot whether a literal "." must follow the digits
VERSION_PATTERNS == <<
    [sep |-> {".", "_", "-"}, word |-> <<"v">>, dot |-> FALSE, tag |-> <<"_", "v">>],
    [sep |-> {".", "_", "-"}, word |-> <<"v", "e", "r">>, dot |-> FALSE,
     tag |-> <<"_", "v", "e", "r">>],
    [sep |-> {".", "_", "-"}, word |-> <<"v", "e", "r", "s", "i", "o", "n">>, dot |-> FALSE,
     tag |-> <<"_", "v", "e", "r", "s", "i", "o", "n">>],
    [sep |-> {"."}, word |-> <<"v">>, dot |-> TRUE, tag |-> <<".", "v">>],
    [sep |-> {"-"}, word |-> <<"v">>, dot |-> FALSE, tag |-> <<"-", "v">>] >>

NumPatterns == Len(VERSION_PATTERNS)

\* the end of the (greedy) run of digits that starts at i; i - 1 when s[i] is no digit
DigitRunEnd(s, i) ==
    CHOOSE j \in (i - 1)..Len(s) :
        /\ \A k \in i..j : IsDigit(s[k])
        /\ (j = Len(s) \/ ~IsDigit(s[j + 1]))

\* MatchEnd with the leading character class replaced by an unescaped ".", which
\* matches any character
MatchEndAnyChar(pat, s, i) ==
    LET w == Len(pat.word)
        d == i + w + 1
    IN  IF /\ d <= Len(s)
           /\ \A k \in 1..w : Lower(s[i + k]) = pat.word[k]
           /\ IsDigit(s[d])
        THEN DigitRunEnd(s, d)
        ELSE 0

\* the index of the last character of the match of pat that starts at i, 0 when
\* pat does not match there
MatchEnd(pat, s, i) ==
    LET w == Len(pat.word)
        d == i + w + 1
    IN  IF /\ d <= Len(s)
           /\ s[i] \in pat.sep
           /\ \A k \in 1..w : Lower(s[i + k]) = pat.word[k]
           /\ IsDigit(s[d])
        THEN LET e == DigitRunEnd(s, d)
             IN  IF pat.dot
                 THEN (IF e < Len(s) /\ s[e + 1] = "." THEN e + 1 ELSE 0)
                 ELSE e
        ELSE 0

\* re.search(pattern, s, re.IGNORECASE): the start of the leftmost match, 0 for no match
Search(pat, s) ==
    IF \E i \in 1..Len(s) : MatchEnd(pat, s, i) # 0
    THEN CHOOSE i \in 1..Len(s) :
            MatchEnd(pat, s, i) # 0 /\ \A j \in 1..(i - 1) : MatchEnd(pat, s, j) = 0
    ELSE 0

\* match.group(1) of the match of pat that starts at i
Group1(pat, s, i) ==
    LET d == i + Len(pat.word) + 1
    IN  SubSeq(s, d, DigitRunEnd(s, d))

\* re.sub(pattern, '', s, flags=re.IGNORECASE), scanning from i: one pass, left to right
RECURSIVE Strip(_, _, _)
Strip(pat, s, i) ==
    IF i > Len(s) THEN <<>>
    ELSE LET e == MatchEnd(pat, s, i)
         IN  IF e # 0 THEN Strip(pat, s, e + 1)
             ELSE <<s[i]>> \o Strip(pat, s, i + 1)

(***************************************************************************)
(* VersionUtils                                                            *)
(***************************************************************************)

\* the index of the first pattern of VERSION_PATTERNS that matches filename, 0 for none
FirstPattern(filename) ==
    IF \E k \in 1..NumPatterns : Search(VERSION_PATTERNS[k], filename) # 0
    THEN CHOOSE k \in 1..NumPatterns :
            /\ Search(VERSION_PATTERNS[k], filename) # 0
            /\ \A j \in 1..(k - 1) : Search(VERSION_PATTERNS[j], filename) = 0
    ELSE 0

\* extract_version taking the token that occurs first in the name, whatever its pattern
extract_version_leftmost(filepath) ==
    LET filename == Basename(filepath)
        k == FirstPattern(filename)
        first == CHOOSE j \in 1..NumPatterns :
                    /\ Search(VERSION_PATTERNS[j], filename) # 0
                    /\ \A l \in 1..NumPatterns :
                          Search(VERSION_PATTERNS[l], filename) # 0 =>
                            \/ Search(VERSION_PATTERNS[j], filename)
                                  < Search(VERSION_PATTERNS[l], filename)
                            \/ /\ Search(VERSION_PATTERNS[j], filename)
                                    = Search(VERSION_PATTERNS[l], filename)
                               /\ j <= l
    IN  IF k = 0 THEN None
        ELSE LET pat == VERSION_PATTERNS[first]
             IN  ParseInt(Group1(pat, filename, Search(pat, filename)))

extract_version(filepath) ==
    LET filename == Basename(filepath)
        k == FirstPattern(filename)
    IN  IF k = 0 THEN None
        ELSE LET pat == VERSION_PATTERNS[k]
             IN  ParseInt(Group1(pat, filename, Search(pat, filename)))

\* the identifier of the first matching pattern; <<>> stands for None (both are falsy)
get_version_pattern(filepath) ==
    LET k == FirstPattern(Basename(filepath))
    IN  IF k = 0 THEN <<>> ELSE VERSION_PATTERNS[k].tag

RECURSIVE StripPatterns(_, _)
StripPatterns(stem, k) ==
    IF k > NumPatterns THEN stem
    ELSE StripPatterns(Strip(VERSION_PATTERNS[k], stem, 1), k + 1)

get_base_name(filepath) == StripPatterns(PathStem(filepath), 1)

build_version_path(base_filepath, version_number) ==
    LET base_name == get_base_name(base_filepath)
        found == get_version_pattern(base_filepath)
        pattern_type == IF found = <<>> THEN <<"_", "v">> ELSE found
        new_stem == base_name \o pattern_type \o Format02d(version_number)
    IN  JoinParent(base_filepath, new_stem \o PathSuffix(base_filepath))

(***************************************************************************)
(* The file system: os.path.exists and Path.glob                           *)
(***************************************************************************)

\* the directories on disk
Directories == { <<"d">>, <<"S">>, <<"P">> }

FileSet == { listing[i] : i \in 1..Len(listing) }

\* os.path.exists
Exists(p) == p \in FileSet \/ p \in Directories

\* fnmatch of name against prefix*suffix (neither holds a glob metacharacter);
\* the match is case-sensitive
GlobMatch(name, prefix, suffix) ==
    /\ Len(name) >= Len(prefix) + Len(suffix)
    /\ SubSeq(name, 1, Len(prefix)) = prefix
    /\ SubSeq(name, Len(name) - Len(suffix) + 1, Len(name)) = suffix

\* [str(f) for f in Path(directory).glob(prefix*suffix)], in traversal order
Glob(directory, prefix, suffix) ==
    SelectSeq(listing, LAMBDA f :
        Dirname(f) = directory /\ GlobMatch(Basename(f), prefix, suffix))

\* list.sort(key=version) is stable: x goes after the entries whose key is <= its own
InsertByVersion(sorted, x) ==
    LET k == Cardinality({i \in 1..Len(sorted) : sorted[i].version <= x.version})
    IN  SubSeq(sorted, 1, k) \o <<x>> \o SubSeq(sorted, k + 1, Len(sorted))

\* the sort left out: the entries stay in traversal order
SortByVersionOmitted(versions) == versions

RECURSIVE SortByVersion(_)
SortByVersion(versions) ==
    IF versions = <<>> THEN <<>>
    ELSE InsertByVersion(SortByVersion(SubSeq(versions, 1, Len(versions) - 1)),
                         versions[Len(versions)])

find_all_versions(filepath) ==
    LET directory == Dirname(filepath)
        pattern_type == get_version_pattern(filepath)
        found == Glob(directory, get_base_name(filepath) \o pattern_type,
                      PathSuffix(filepath))
        pairs == [i \in 1..Len(found) |->
                    [path |-> found[i], version |-> extract_version(found[i])]]
        versions == SelectSeq(pairs, LAMBDA x : x.version # None)
    IN  IF ~Exists(filepath) /\ ~Exists(directory) THEN <<>>
        ELSE IF pattern_type = <<>> THEN << [path |-> filepath, version |-> None] >>
        ELSE SortByVersion(versions)

get_latest_version(filepath) ==
    LET versions == find_all_versions(filepath)
    IN  IF versions = <<>> THEN [path |-> filepath, version |-> None]
        ELSE versions[Len(versions)]

has_newer_version(filepath) ==
    LET current_version == extract_version(filepath)
        latest_version == get_latest_version(filepath).version
    IN  IF current_version = None THEN FALSE
        ELSE IF latest_version = None THEN FALSE
        ELSE latest_version > current_version

(***************************************************************************)
(* Strings and paths of the library operations                             *)
(***************************************************************************)

\* sub in s
Contains(s, sub) ==
    \E i \in 1..(Len(s) - Len(sub) + 1) : SubSeq(s, i, i + Len(sub) - 1) = sub

\* s.replace(old, new), from i on: every occurrence, left to right, none overlapping
RECURSIVE ReplaceFrom(_, _, _, _)
ReplaceFrom(s, old, new, i) ==
    IF i > Len(s) THEN <<>>
    ELSE IF i + Len(old) - 1 <= Len(s) /\ SubSeq(s, i, i + Len(old) - 1) = old
         THEN new \o ReplaceFrom(s, old, new, i + Len(old))
         ELSE <<s[i]>> \o ReplaceFrom(s, old, new, i + 1)

Replace(s, old, new) == ReplaceFrom(s, old, new, 1)

\* the directory of the open .blend file, which a leading "//" stands for
BlendDir == <<"P", "/">>

\* bpy.path.abspath
Abspath(p) ==
    IF Len(p) >= 2 /\ p[1] = "/" /\ p[2] = "/"
    THEN BlendDir \o SubSeq(p, 3, Len(p))
    ELSE p

\* os.environ and the home directory
Environ == [ X |-> <<"P">> ]

EnvNames == { <<"X">> }

EnvValue(name) == IF name = <<"X">> THEN Environ.X ELSE <<>>

Home == <<"P">>

\* the characters that end a $NAME (the characters that are not \w)
NonWordChars == { "/", ".", "-", "$", "{", "}", "~", "%", ":" }

\* the end of the run of word characters that starts at i; i - 1 when there is none
WordRunEnd(s, i) ==
    CHOOSE j \in (i - 1)..Len(s) :
        /\ \A k \in i..j : s[k] \notin NonWordChars
        /\ (j = Len(s) \/ s[j + 1] \in NonWordChars)

\* os.path.expandvars (posixpath), from i on: $NAME and ${NAME}; a name that is
\* not in the environment stays as written
RECURSIVE ExpandVarsFrom(_, _)
ExpandVarsFrom(s, i) ==
    IF i > Len(s) THEN <<>>
    ELSE IF s[i] # "$" \/ i = Len(s) THEN <<s[i]>> \o ExpandVarsFrom(s, i + 1)
    ELSE IF s[i + 1] = "{"
         THEN IF \E j \in (i + 2)..Len(s) : s[j] = "}"
              THEN LET j == CHOOSE j \in (i + 2)..Len(s) :
                              s[j] = "}" /\ \A k \in (i + 2)..(j - 1) : s[k] # "}"
                       name == SubSeq(s, i + 2, j - 1)
                   IN  IF name \in EnvNames
                       THEN EnvValue(name) \o ExpandVarsFrom(s, j + 1)
                       ELSE SubSeq(s, i, j) \o ExpandVarsFrom(s, j + 1)
              ELSE <<s[i]>> \o ExpandVarsFrom(s, i + 1)
    ELSE LET j == WordRunEnd(s, i + 1)
             name == SubSeq(s, i + 1, j)
         IN  IF j < i + 1 THEN <<s[i]>> \o ExpandVarsFrom(s, i + 1)
             ELSE IF name \in EnvNames
                  THEN EnvValue(name) \o ExpandVarsFrom(s, j + 1)
                  ELSE SubSeq(s, i, j) \o ExpandVarsFrom(s, j + 1)

\* os.path.expanduser, for "~" and "~/..."
ExpandUser(p) ==
    IF Len(p) >= 1 /\ p[1] = "~" /\ (Len(p) = 1 \/ p[2] = "/")
    THEN Home \o SubSeq(p, 2, Len(p))
    ELSE p

\* resolve_environment_path that also resolves a leading "//" as bpy.path.abspath
resolve_environment_path_abspath(filepath) ==
    Abspath(ExpandUser(ExpandVarsFrom(filepath, 1)))

\* HeadlessHandler.resolve_environment_path
resolve_environment_path(filepath) == ExpandUser(ExpandVarsFrom(filepath, 1))

(***************************************************************************)
(* Libraries and the library list of the scene settings                    *)
(***************************************************************************)

\* bpy.data.libraries is kept in name order
LibOrder == <<"L1", "L2">>

LibNames == { LibOrder[i] : i \in 1..Len(LibOrder) }

LiveLibraries == SelectSeq(LibOrder, LAMBDA n : n \in DOMAIN libraries)

\* library.reload() raises when the file of the library is not on disk
ReloadRaises(filepath) == Abspath(filepath) \notin FileSet

\* a relocation that reloads without storing the new path
relocate_library_reload_only(libs, name, new_path) ==
    [libs |-> libs, ok |-> ~ReloadRaises(new_path)]

\* LibraryUtils.relocate_library on library `name` of libs: the libraries after the
\* call and the boolean it returns; the path is stored, then the reload may raise
relocate_library(libs, name, new_path) ==
    [libs |-> [libs EXCEPT ![name].filepath = new_path],
     ok |-> ~ReloadRaises(new_path)]

\* LibraryUtils.find_overrides_for_library
find_overrides_for_library(name) ==
    { o \in DOMAIN objects :
        /\ objects[o].override
        /\ objects[o].reference
        /\ objects[o].library = name }

\* LibraryUtils.get_library_info
get_library_info(libs, name) ==
    [name |-> name,
     filepath |-> libs[name].filepath,
     filepath_abs |-> Abspath(libs[name].filepath),
     exists |-> Exists(Abspath(libs[name].filepath))]

\* update_library_list without linked_libraries.clear(): the new items follow the
\* items that the list had
update_library_list_no_clear(libs) ==
    registry \o (LET live == SelectSeq(LibOrder, LAMBDA n : n \in DOMAIN libs)
        IN  [i \in 1..Len(live) |->
                LET info == get_library_info(libs, live[i])
                IN  [library_name |-> info.name,
                     filepath |-> info.filepath,
                     exists |-> info.exists,
                     override_count |-> Cardinality(find_overrides_for_library(live[i])),
                     selected |-> FALSE,
                     version_number |-> 0,
                     has_newer_version |-> FALSE]])

\* PROREF_OT_UpdateLibraryList.execute: the list is cleared and rebuilt, one item
\* per library, the other fields at their defaults
update_library_list(libs) ==
    LET live == SelectSeq(LibOrder, LAMBDA n : n \in DOMAIN libs)
    IN  [i \in 1..Len(live) |->
            LET info == get_library_info(libs, live[i])
            IN  [library_name |-> info.name,
                 filepath |-> info.filepath,
                 exists |-> info.exists,
                 override_count |-> Cardinality(find_overrides_for_library(live[i])),
                 selected |-> FALSE,
                 version_number |-> 0,
                 has_newer_version |-> FALSE]]

\* the loop of PROREF_OT_BatchRelink.execute over selected_libs[i..]; st holds the
\* libraries, the two counters and, for each counter, the libraries it counted
RECURSIVE RelinkLoop(_, _, _, _, _)
RelinkLoop(selected_libs, i, st, search_string, replace_string) ==
    IF i > Len(selected_libs) THEN st
    ELSE LET name == selected_libs[i].library_name
         IN  IF name \notin DOMAIN st.libs
             THEN RelinkLoop(selected_libs, i + 1,
                    [st EXCEPT !.failed_count = @ + 1, !.failed = @ \cup {name}],
                    search_string, replace_string)
             ELSE LET old_path == st.libs[name].filepath
                      new_path == Replace(old_path, search_string, replace_string)
                      r == relocate_library(st.libs, name, new_path)
                  IN  IF ~Contains(old_path, search_string)
                      THEN RelinkLoop(selected_libs, i + 1,
                             [st EXCEPT !.skipped = @ \cup {name}],
                             search_string, replace_string)
                      ELSE IF r.ok
                      THEN RelinkLoop(selected_libs, i + 1,
                             [st EXCEPT !.libs = r.libs, !.success_count = @ + 1,
                                        !.relinked = @ \cup {name}],
                             search_string, replace_string)
                      ELSE RelinkLoop(selected_libs, i + 1,
                             [st EXCEPT !.libs = r.libs, !.failed_count = @ + 1,
                                        !.failed = @ \cup {name}],
                             search_string, replace_string)

\* auto_fix_broken_links, the branch that fixes library `name`: the resolved path
\* is stored and the library reloaded; st already counts the library in total
AutoFixApply(st, name, resolved_path) ==
    IF ReloadRaises(resolved_path)
    THEN [st EXCEPT !.libs[name].filepath = resolved_path,
                    !.reloads = @ \cup {name},
                    !.missing = @ + 1]
    ELSE [st EXCEPT !.libs[name].filepath = resolved_path,
                    !.reloads = @ \cup {name},
                    !.fixed = @ + 1]

\* the report_only branch without its counter
AutoFixReportUncounted(st, name, resolved_path) == st

\* auto_fix_broken_links, the report_only branch: the library is counted as fixable
AutoFixReport(st, name, resolved_path) ==
    [st EXCEPT !.fixed = @ + 1]

\* the loop of HeadlessHandler.auto_fix_broken_links over the libraries order[i..]
RECURSIVE AutoFixLoop(_, _, _, _)
AutoFixLoop(order, i, st, report_only) ==
    IF i > Len(order) THEN st
    ELSE LET name == order[i]
             filepath == st.libs[name].filepath
             resolved_path == resolve_environment_path(filepath)
             counted == [st EXCEPT !.total = @ + 1]
         IN  IF Exists(Abspath(filepath))
             THEN AutoFixLoop(order, i + 1,
                    [counted EXCEPT !.already_ok = @ + 1], report_only)
             ELSE IF ~Exists(resolved_path)
             THEN AutoFixLoop(order, i + 1,
                    [counted EXCEPT !.missing = @ + 1], report_only)
             ELSE IF report_only
             THEN AutoFixLoop(order, i + 1,
                    AutoFixReport(counted, name, resolved_path), report_only)
             ELSE AutoFixLoop(order, i + 1,
                    AutoFixApply(counted, name, resolved_path), report_only)

\* the try of PROREF_OT_BatchReloadLibraries.execute: library.reload() does not raise
ReloadSucceeds(libs, name) == ~ReloadRaises(libs[name].filepath)

\* PROREF_OT_BatchSearchFolder._find_file: the first file named filename that the
\* traversal of directory yields, <<>> for None
_find_file(directory, filename, recursive) ==
    LET under(f) == /\ Len(f) > Len(directory) + 1
                    /\ SubSeq(f, 1, Len(directory) + 1) = directory \o <<"/">>
        hits == SelectSeq(listing, LAMBDA f :
                    /\ Basename(f) = filename
                    /\ IF recursive THEN under(f) ELSE Dirname(f) = directory)
    IN  IF hits = <<>> THEN <<>> ELSE hits[1]

\* the loop of PROREF_OT_BatchSearchFolder.execute over selected_libs[i..]; st holds
\* the libraries, the counter, the libraries it counted and the libraries that were
\* tried without success
RECURSIVE SearchLoop(_, _, _, _, _)
SearchLoop(selected_libs, i, st, directory, recursive) ==
    IF i > Len(selected_libs) THEN st
    ELSE LET name == selected_libs[i].library_name
             found_path == _find_file(directory, Basename(st.libs[name].filepath),
                                      recursive)
             r == relocate_library(st.libs, name, found_path)
             next == IF name \notin DOMAIN st.libs
                     THEN [st EXCEPT !.failed = @ \cup {name}]
                     ELSE IF found_path = <<>>
                     THEN [st EXCEPT !.failed = @ \cup {name}]
                     ELSE IF r.ok
                     THEN [st EXCEPT !.libs = r.libs, !.success_count = @ + 1,
                                     !.relinked = @ \cup {name}]
                     ELSE [st EXCEPT !.libs = r.libs, !.failed = @ \cup {name}]
         IN  \* next is computed once
             CHOOSE out \in { SearchLoop(selected_libs, i + 1, x, directory, recursive) :
                              x \in {next} } : TRUE

\* the loop of PROREF_OT_BatchReloadLibraries.execute over selected_libs[i..]
RECURSIVE ReloadLoop(_, _, _)
ReloadLoop(selected_libs, i, st) ==
    IF i > Len(selected_libs) THEN st
    ELSE LET name == selected_libs[i].library_name
             next == IF name \notin DOMAIN st.libs
                     THEN [st EXCEPT !.failed_count = @ + 1, !.failed = @ \cup {name}]
                     ELSE IF ReloadSucceeds(st.libs, name)
                     THEN [st EXCEPT !.success_count = @ + 1,
                                     !.reloaded = @ \cup {name}]
                     ELSE [st EXCEPT !.failed_count = @ + 1, !.failed = @ \cup {name}]
         IN  CHOOSE out \in { ReloadLoop(selected_libs, i + 1, x) : x \in {next} } : TRUE

(***************************************************************************)
(* Override objects and their health                                       *)
(*                                                                         *)
(* An object is a record: override (it has an override_library),           *)
(* reference (override_library.reference is set), library (the name of     *)
(* reference.library, "" for none), properties (the rna paths of           *)
(* override_library.properties), is_system_override, type, pose, bones,    *)
(* children, and the two custom properties proref_rig_ui and               *)
(* proref_original_script ("" when the key is absent).  A message is the   *)
(* sequence of its words.                                                  *)
(***************************************************************************)

\* Step applied to the value of v, which is computed once
Then(v, Step(_)) == CHOOSE r \in { Step(x) : x \in {v} } : TRUE

AnyOf(t) == \E i \in 1..Len(t) : t[i]

AllOf(t) == \A i \in 1..Len(t) : t[i]

RECURSIVE SumSeq(_)
SumSeq(ns) == IF ns = <<>> THEN 0 ELSE ns[1] + SumSeq(Tail(ns))

\* the words of a message: 'editable' in r.lower()
MentionsEditable(r) == \E i \in 1..Len(r) : r[i] = "editable"

\* check_override_health, Check 1, skipped
CheckReferenceSkipped(obj) == [is_healthy |-> TRUE, issues |-> <<>>]

\* check_override_health, Check 1: Reference exists
CheckReference(obj) ==
    IF ~obj.reference
    THEN [is_healthy |-> FALSE,
          issues |-> << <<"Override", "reference", "is", "missing">> >>]
    ELSE [is_healthy |-> TRUE, issues |-> <<>>]

_check_library_status(libs, obj) ==
    IF ~obj.reference \/ obj.library = ""
    THEN [issues |-> <<>>, library_exists |-> FALSE]
    ELSE IF ~Exists(Abspath(libs[obj.library].filepath))
    THEN [issues |-> << <<"Library", "file", "not", "found:", obj.library>> >>,
          library_exists |-> FALSE]
    ELSE [issues |-> <<>>, library_exists |-> TRUE]

BoneLocked(bone) ==
    AnyOf(bone.lock_location) \/ AnyOf(bone.lock_rotation) \/ AnyOf(bone.lock_scale)

TargetlessTypes == {"LIMIT_LOCATION", "LIMIT_ROTATION", "LIMIT_SCALE"}

ConstraintIssue(constraint) ==
    /\ ~constraint.mute
    /\ constraint.has_target /\ ~constraint.target
    /\ constraint.type \notin TargetlessTypes

_check_armature_status(armature) ==
    IF ~armature.pose
    THEN [warnings |-> << <<"Armature", "has", "no", "pose", "data">> >>,
          bone_count |-> None, locked_bone_count |-> None,
          constraint_issues |-> None]
    ELSE LET bones == armature.bones
             bone_count == Len(bones)
             locked_count == Cardinality({ i \in 1..Len(bones) : BoneLocked(bones[i]) })
             constraint_issues ==
                 SumSeq([i \in 1..Len(bones) |->
                     Cardinality({ k \in 1..Len(bones[i].constraints) :
                                     ConstraintIssue(bones[i].constraints[k]) })])
         IN  [warnings |->
                 (IF 2 * locked_count > bone_count
                  THEN << <<"Many", "bones", "locked", ToString(locked_count),
                            ToString(bone_count)>> >>
                  ELSE <<>>)
                 \o (IF constraint_issues > 0
                     THEN << <<ToString(constraint_issues), "constraints",
                               "missing", "targets">> >>
                     ELSE <<>>),
              bone_count |-> bone_count,
              locked_bone_count |-> locked_count,
              constraint_issues |-> constraint_issues]

\* OverrideValidator.check_override_health on obj, the libraries being libs
check_override_health(libs, obj) ==
    IF ~obj.override
    THEN [is_healthy |-> FALSE,
          issues |-> << <<"Object", "is", "not", "a", "library", "override">> >>,
          warnings |-> <<>>,
          info |-> [override_property_count |-> None, bone_count |-> None,
                    locked_bone_count |-> None, constraint_issues |-> None,
                    library_exists |-> FALSE, has_rig_ui |-> FALSE]]
    ELSE LET reference_check == CheckReference(obj)
             library_check == _check_library_status(libs, obj)
             prop_count == Cardinality(obj.properties)
             armature_check ==
                 IF obj.type = "ARMATURE" THEN _check_armature_status(obj)
                 ELSE [warnings |-> <<>>, bone_count |-> None,
                       locked_bone_count |-> None, constraint_issues |-> None]
         IN  [is_healthy |-> reference_check.is_healthy /\ library_check.issues = <<>>,
              issues |-> reference_check.issues \o library_check.issues,
              warnings |->
                  (IF prop_count = 0
                   THEN << <<"No", "override", "properties", "-", "may", "not",
                             "be", "editable">> >>
                   ELSE <<>>)
                  \o armature_check.warnings,
              info |-> [override_property_count |-> prop_count,
                        bone_count |-> armature_check.bone_count,
                        locked_bone_count |-> armature_check.locked_bone_count,
                        constraint_issues |-> armature_check.constraint_issues,
                        library_exists |-> library_check.library_exists,
                        has_rig_ui |-> obj.proref_rig_ui # ""]]

\* OverrideValidator.diagnose_common_issues: the issue types, in order
diagnose_common_issues(libs, obj) ==
    IF ~obj.override THEN <<"NOT_OVERRIDE">>
    ELSE (IF ~obj.reference THEN <<"MISSING_REFERENCE">> ELSE <<>>)
         \o (IF obj.reference /\ obj.library # ""
                /\ ~Exists(Abspath(libs[obj.library].filepath))
             THEN <<"LIBRARY_NOT_FOUND">> ELSE <<>>)
         \o (IF Cardinality(obj.properties) = 0
             THEN <<"NO_EDITABLE_PROPS">> ELSE <<>>)
         \o (IF obj.is_system_override THEN <<"SYSTEM_OVERRIDE">> ELSE <<>>)

\* the severity that diagnose_common_issues gives with the issue type
Severity(issue_type) ==
    IF issue_type \in {"NOT_OVERRIDE", "MISSING_REFERENCE", "LIBRARY_NOT_FOUND"}
    THEN "ERROR"
    ELSE IF issue_type = "NO_EDITABLE_PROPS" THEN "WARNING"
    ELSE "INFO"

\* find_broken_overrides without the filter on the severity
find_broken_overrides_any_issue(objs, libs) ==
    LET overrides == SelectSeq(<<"A", "B">>,
                               LAMBDA n : n \in DOMAIN objs /\ objs[n].override)
        found == [i \in 1..Len(overrides) |->
                    [object |-> overrides[i],
                     errors |-> diagnose_common_issues(libs, objs[overrides[i]])]]
    IN  SelectSeq(found, LAMBDA item : item.errors # <<>>)

\* OverrideValidator.find_broken_overrides: the objects with their issues of
\* severity ERROR
find_broken_overrides(objs, libs) ==
    LET overrides == SelectSeq(<<"A", "B">>,
                               LAMBDA n : n \in DOMAIN objs /\ objs[n].override)
        found == [i \in 1..Len(overrides) |->
                    [object |-> overrides[i],
                     errors |-> SelectSeq(diagnose_common_issues(libs, objs[overrides[i]]),
                                          LAMBDA issue : Severity(issue) = "ERROR")]]
    IN  SelectSeq(found, LAMBDA item : item.errors # <<>>)

\* OverrideValidator.find_all_overrides_in_scene: the objects with an
\* override_library, in the order of bpy.data.objects
find_all_overrides_in_scene(objs) ==
    SelectSeq(<<"A", "B">>, LAMBDA n : n \in DOMAIN objs /\ objs[n].override)

\* an unhealthy override is given the status of a warning
health_status_warning_only(health_data) ==
    IF health_data.warnings # <<>> \/ ~health_data.is_healthy THEN "WARNING"
    ELSE "HEALTHY"

\* PROREF_OT_HealthCheck.execute, Set health status
health_status(health_data) ==
    IF health_data.is_healthy
    THEN IF health_data.warnings # <<>> THEN "WARNING" ELSE "HEALTHY"
    ELSE "ERROR"

\* the loop of PROREF_OT_HealthCheck.execute over overrides[i..]
RECURSIVE HealthCheckLoop(_, _, _, _, _)
HealthCheckLoop(objs, libs, overrides, i, st) ==
    IF i > Len(overrides) THEN st
    ELSE Then(check_override_health(libs, objs[overrides[i]]), LAMBDA health_data :
         Then(health_status(health_data), LAMBDA status :
           HealthCheckLoop(objs, libs, overrides, i + 1,
             [health_checks |-> Append(st.health_checks,
                  [object_name |-> overrides[i], health_status |-> status,
                   issue_count |-> Len(health_data.issues)]),
              healthy_count |-> st.healthy_count + (IF status = "HEALTHY" THEN 1 ELSE 0),
              warning_count |-> st.warning_count + (IF status = "WARNING" THEN 1 ELSE 0),
              error_count |-> st.error_count + (IF status = "ERROR" THEN 1 ELSE 0)])))

\* PROREF_OT_HealthCheck.execute: the health_checks list and the three counts
health_check(objs, libs) ==
    HealthCheckLoop(objs, libs, find_all_overrides_in_scene(objs), 1,
                    [health_checks |-> <<>>, healthy_count |-> 0,
                     warning_count |-> 0, error_count |-> 0])

(***************************************************************************)
(* Repair of an override                                                   *)
(***************************************************************************)

\* o.bl_rna.properties of an object: identifier and is_readonly
RnaProperties == <<
    [identifier |-> "rna_type", is_readonly |-> TRUE],
    [identifier |-> "name", is_readonly |-> FALSE],
    [identifier |-> "type", is_readonly |-> TRUE],
    [identifier |-> "location", is_readonly |-> FALSE],
    [identifier |-> "hide_viewport", is_readonly |-> FALSE] >>

BoneTransformProperties ==
    <<"location", "rotation_euler", "rotation_quaternion", "rotation_axis_angle",
      "scale">>

\* the rna paths that process_object adds for one object
EditablePaths(o) ==
    { <<RnaProperties[i].identifier>> :
        i \in { k \in 1..Len(RnaProperties) :
                  /\ ~RnaProperties[k].is_readonly
                  /\ RnaProperties[k].identifier \notin {"rna_type", "name"} } }
    \cup (IF o.type = "ARMATURE" /\ o.pose
          THEN { <<"pose.bones", o.bones[b].name, BoneTransformProperties[k]>> :
                   b \in 1..Len(o.bones), k \in 1..Len(BoneTransformProperties) }
               \cup UNION { { <<"pose.bones", o.bones[b].name, "constraints",
                                ToString(i - 1), "influence">> :
                                i \in 1..Len(o.bones[b].constraints) } :
                            b \in 1..Len(o.bones) }
          ELSE {})

\* the number of times process_object calls properties.add for one object; an add
\* of a path that is already in the list adds nothing and does not raise
AddCalls(o) ==
    Cardinality({ k \in 1..Len(RnaProperties) :
                    /\ ~RnaProperties[k].is_readonly
                    /\ RnaProperties[k].identifier \notin {"rna_type", "name"} })
    + (IF o.type = "ARMATURE" /\ o.pose
       THEN SumSeq([b \in 1..Len(o.bones) |->
                       Len(BoneTransformProperties) + Len(o.bones[b].constraints)])
       ELSE 0)

\* process_object of make_all_properties_editable on object name and, after it, on
\* the children names[i..]; st holds the objects and the count
RECURSIVE process_object(_, _)
RECURSIVE ProcessChildren(_, _, _)
process_object(st, name) ==
    LET o == st.objs[name]
    IN  IF ~o.override THEN st
        ELSE Then([objs |-> [st.objs EXCEPT ![name].properties =
                                              @ \cup EditablePaths(o)],
                   count |-> st.count + AddCalls(o)],
                  LAMBDA added : ProcessChildren(added, o.children, 1))

ProcessChildren(st, names, i) ==
    IF i > Len(names) THEN st
    ELSE Then(process_object(st, names[i]),
              LAMBDA done : ProcessChildren(done, names, i + 1))

\* LibraryUtils.make_all_properties_editable: the objects after the call and the
\* count it returns
make_all_properties_editable(objs, name) ==
    process_object([objs |-> objs, count |-> 0], name)

\* obj.children_recursive
RECURSIVE ChildrenRecursive(_, _)
ChildrenRecursive(objs, names) ==
    IF names = <<>> THEN <<>>
    ELSE <<names[1]>> \o ChildrenRecursive(objs, objs[names[1]].children)
         \o ChildrenRecursive(objs, Tail(names))

\* LibraryUtils.find_armature_in_hierarchy: the name of the armature, "" for None
find_armature_in_hierarchy(objs, name) ==
    IF objs[name].type = "ARMATURE" THEN name
    ELSE LET armatures == SelectSeq(ChildrenRecursive(objs, objs[name].children),
                                    LAMBDA c : objs[c].type = "ARMATURE")
         IN  IF armatures = <<>> THEN "" ELSE armatures[1]

\* PROREF_OT_RepairOverride._attempt_repair; message and error are <<>> when unset
_attempt_repair(objs, name, issue_type) ==
    IF issue_type = "NO_EDITABLE_PROPS"
    THEN Then(make_all_properties_editable(objs, name), LAMBDA made :
           IF made.count > 0
           THEN [objs |-> made.objs, success |-> TRUE,
                 message |-> <<"Made", ToString(made.count), "properties",
                               "editable">>,
                 error |-> <<>>]
           ELSE [objs |-> made.objs, success |-> FALSE, message |-> <<>>,
                 error |-> <<>>])
    ELSE IF issue_type = "MISSING_REFERENCE"
    THEN [objs |-> objs, success |-> FALSE, message |-> <<>>,
          error |-> <<"Cannot", "auto-repair", "missing", "reference">>]
    ELSE IF issue_type = "LIBRARY_NOT_FOUND"
    THEN [objs |-> objs, success |-> FALSE, message |-> <<>>,
          error |-> <<"Library", "file", "missing", "-", "use", "Relocate">>]
    ELSE IF issue_type = "SYSTEM_OVERRIDE"
    THEN [objs |-> [objs EXCEPT ![name].is_system_override = FALSE],
          success |-> TRUE,
          message |-> <<"Converted", "system", "override", "to", "editable">>,
          error |-> <<>>]
    ELSE [objs |-> objs, success |-> FALSE, message |-> <<>>, error |-> <<>>]

\* a bone counts as fully locked as soon as one of its axes is locked
FullyLockedAny(bone) == BoneLocked(bone)

\* _repair_armature: Only unlock if ALL transforms are locked
FullyLocked(bone) ==
    AllOf(bone.lock_location) /\ AllOf(bone.lock_rotation) /\ AllOf(bone.lock_scale)

Unlocked3 == <<FALSE, FALSE, FALSE>>

\* PROREF_OT_RepairOverride._repair_armature
_repair_armature(objs, name) ==
    LET armature == objs[name]
        bones == armature.bones
        unlocked == Cardinality({ b \in 1..Len(bones) : FullyLocked(bones[b]) })
    IN  IF ~armature.pose THEN [objs |-> objs, repairs |-> <<>>]
        ELSE [objs |-> [objs EXCEPT ![name].bones =
                          [b \in 1..Len(bones) |->
                             IF FullyLocked(bones[b])
                             THEN [bones[b] EXCEPT !.lock_location = Unlocked3,
                                                   !.lock_rotation = Unlocked3,
                                                   !.lock_scale = Unlocked3]
                             ELSE bones[b]]],
              repairs |-> IF unlocked > 0
                          THEN << <<"Unlocked", ToString(unlocked), "fully-locked",
                                    "bones">> >>
                          ELSE <<>>]

\* _repair_rig_ui_reference that never restores: a dangling reference is cleared
_repair_rig_ui_reference_clear_only(objs, txts, name) ==
    LET armature == find_armature_in_hierarchy(objs, name)
    IN  IF armature = "" THEN [objs |-> objs, repair |-> <<>>]
        ELSE IF /\ objs[armature].proref_rig_ui # ""
                /\ objs[armature].proref_rig_ui \notin txts
        THEN [objs |-> [objs EXCEPT ![armature].proref_rig_ui = ""],
              repair |-> <<"Cleared", "broken", "rig", "UI", "reference">>]
        ELSE [objs |-> objs, repair |-> <<>>]

\* PROREF_OT_RepairOverride._repair_rig_ui_reference; repair is <<>> for None
_repair_rig_ui_reference(objs, txts, name) ==
    LET armature == find_armature_in_hierarchy(objs, name)
    IN  IF armature = "" THEN [objs |-> objs, repair |-> <<>>]
        ELSE LET script_name == objs[armature].proref_rig_ui
                 original_name == objs[armature].proref_original_script
             IN  IF script_name # "" /\ script_name \notin txts
                 THEN IF original_name # "" /\ original_name \in txts
                      THEN [objs |-> [objs EXCEPT ![armature].proref_rig_ui =
                                                      original_name],
                            repair |-> <<"Restored", "rig", "UI", "reference", "to",
                                         original_name>>]
                      ELSE [objs |-> [objs EXCEPT ![armature].proref_rig_ui = ""],
                            repair |-> <<"Cleared", "broken", "rig", "UI",
                                         "reference">>]
                 ELSE [objs |-> objs, repair |-> <<>>]

\* the loop of PROREF_OT_RepairOverride.execute over issues[i..]; st holds the
\* objects, the repairs and the errors
RECURSIVE AttemptRepairs(_, _, _, _)
AttemptRepairs(st, name, issues, i) ==
    IF i > Len(issues) THEN st
    ELSE Then(_attempt_repair(st.objs, name, issues[i]), LAMBDA result :
         Then([objs |-> result.objs,
               repairs |-> IF result.success THEN Append(st.repairs, result.message)
                           ELSE st.repairs,
               errors |-> IF ~result.success /\ result.error # <<>>
                          THEN Append(st.errors, result.error)
                          ELSE st.errors],
              LAMBDA attempted : AttemptRepairs(attempted, name, issues, i + 1)))

\* PROREF_OT_RepairOverride.execute, Repair 1: Ensure properties are editable
EnsureEditable(st, name) ==
    IF \E k \in 1..Len(st.repairs) : MentionsEditable(st.repairs[k]) THEN st
    ELSE Then(make_all_properties_editable(st.objs, name), LAMBDA made :
           [st EXCEPT !.objs = made.objs,
                      !.repairs = IF made.count > 0
                                  THEN Append(@, <<"Made", ToString(made.count),
                                                   "properties", "editable">>)
                                  ELSE @])

\* PROREF_OT_RepairOverride.execute, Repair 2: Fix armature-specific issues
RepairArmature(st, name) ==
    IF st.objs[name].type # "ARMATURE" THEN st
    ELSE Then(_repair_armature(st.objs, name), LAMBDA armature :
           [st EXCEPT !.objs = armature.objs, !.repairs = @ \o armature.repairs])

\* PROREF_OT_RepairOverride.execute, Repair 3: Fix rig UI reference
RepairRigUI(st, txts, name) ==
    Then(_repair_rig_ui_reference(st.objs, txts, name), LAMBDA rig_ui :
      [st EXCEPT !.objs = rig_ui.objs,
                 !.repairs = IF rig_ui.repair # <<>> THEN Append(@, rig_ui.repair)
                             ELSE @])

\* PROREF_OT_RepairOverride.execute on the object object_name; report is what
\* self.report is given: the level, the text and the items joined after it
repair_override(objs, libs, txts, object_name) ==
    IF object_name \notin DOMAIN objs \/ ~objs[object_name].override
    THEN [objs |-> objs, repairs |-> <<>>, errors |-> <<>>, ran |-> FALSE,
          result |-> "CANCELLED",
          report |-> [level |-> "ERROR", text |-> "no override to repair",
                      items |-> <<>>]]
    ELSE Then(diagnose_common_issues(libs, objs[object_name]), LAMBDA issues :
         Then(AttemptRepairs([objs |-> objs, repairs |-> <<>>, errors |-> <<>>],
                             object_name, issues, 1), LAMBDA diagnosed :
         Then(EnsureEditable(diagnosed, object_name), LAMBDA ensured :
         Then(RepairArmature(ensured, object_name), LAMBDA armature :
         Then(RepairRigUI(armature, txts, object_name), LAMBDA st :
           [objs |-> st.objs, repairs |-> st.repairs, errors |-> st.errors,
            ran |-> TRUE,
            result |-> IF st.repairs # <<>> THEN "FINISHED"
                       ELSE IF st.errors # <<>> THEN "CANCELLED"
                       ELSE "FINISHED",
            report |-> IF st.repairs # <<>>
                       THEN [level |-> "INFO", text |-> "Repairs made:",
                             items |-> st.repairs]
                       ELSE IF st.errors # <<>>
                       THEN [level |-> "WARNING", text |-> "Could not repair:",
                             items |-> st.errors]
                       ELSE [level |-> "INFO",
                             text |-> "No repairs needed - override is healthy",
                             items |-> <<>>]])))))

(***************************************************************************)
(* Calls of the VersionUtils functions                                     *)
(***************************************************************************)

RECURSIVE Flatten(_)
Flatten(ss) == IF ss = <<>> THEN <<>> ELSE Head(ss) \o Flatten(Tail(ss))

SeqsUpTo(S, n) == UNION { [1..k -> S] : k \in 0..n }

\* file names are built from whole tokens ...
MaxTokens == 3

TokenPieces == {
    <<"a">>, <<".", "b">>,
    <<"_", "v", "1">>, <<"_", "v", "e", "r", "2">>,
    <<"_", "v", "e", "r", "s", "i", "o", "n", "3">>,
    <<".", "v", "4">>, <<"-", "v", "5">>, <<"_", "V", "6">> }

\* ... and, character by character, from the characters of a token
MaxChars == 6

CharPieces == { <<"_">>, <<"v">>, <<"1">> }

DirPrefixes == { <<>>, <<"d", "/">>, <<"d", "_", "v", "9", "/">> }

TokenNames == { Flatten(ps) : ps \in SeqsUpTo(TokenPieces, MaxTokens) } \ { <<>> }

CharNames == { Flatten(ps) : ps \in SeqsUpTo(CharPieces, MaxChars) } \ { <<>> }

VersionInputs == { d \o n : d \in DirPrefixes, n \in TokenNames } \cup CharNames

VersionNumbers == { 0, 7, 123 }

NoCall == [op |-> "none"]

VCall(op, filepath, version_number, result) ==
    [op |-> op, filepath |-> filepath, version_number |-> version_number,
     result |-> result]

ExtractVersion ==
    /\ vcall.op = "input"
    /\ vcall' = VCall("extract_version", vcall.filepath, None, extract_version(vcall.filepath))
    /\ UNCHANGED <<listing, libraries, registry, bcall, objects, texts, rcall>>

GetVersionPattern ==
    /\ vcall.op = "input"
    /\ vcall' = VCall("get_version_pattern", vcall.filepath, None, get_version_pattern(vcall.filepath))
    /\ UNCHANGED <<listing, libraries, registry, bcall, objects, texts, rcall>>

GetBaseName ==
    /\ vcall.op = "input"
    /\ vcall' = VCall("get_base_name", vcall.filepath, None, get_base_name(vcall.filepath))
    /\ UNCHANGED <<listing, libraries, registry, bcall, objects, texts, rcall>>

BuildVersionPath ==
    /\ vcall.op = "input"
    /\ vcall' = VCall("build_version_path", vcall.filepath, vcall.version_number,
                      build_version_path(vcall.filepath, vcall.version_number))
    /\ UNCHANGED <<listing, libraries, registry, bcall, objects, texts, rcall>>

(***************************************************************************)
(* Calls of the VersionUtils functions that read the disk                  *)
(***************************************************************************)

\* at most this many files are on disk at a time
MaxFiles == 3

FileCandidates == {
    <<"d", "/", "h", "_", "v", "2", ".", "b">>,
    <<"d", "/", "h", "_", "v", "1", "0", ".", "b">>,
    <<"d", "/", "h", "_", "v", "0", "2", ".", "b">>,
    <<"d", "/", "h", "_", "v", "x", ".", "b">>,
    <<"d", "/", "h", ".", "b">>,
    <<"d", "/", "h", ".", "v", "4", ".", "b">>,
    <<"d", "/", "h", "_", "V", "6", ".", "b">>,
    <<"d", "/", "h", "_", "v", "e", "r", "4", ".", "b">>,
    <<"h", "_", "v", "1", ".", "b">> }

FileInputs == FileCandidates \cup {
    <<"d", "/", "h", "_", "v", "7", ".", "b">>,
    <<"d", "/", "h", "-", "v", "5", ".", "b">>,
    <<"d", "/", "h", "-", "v", "e", "r", "3", ".", "b">>,
    <<"d", "/", "h", "v", "8", ".", "b">>,
    <<"x", "/", "h", "_", "v", "1", ".", "b">>,
    <<"x", "/", "h", ".", "b">>,
    <<"h", ".", "b">> }

\* a file of candidates appears at any place of the traversal order
CreateFileOf(candidates) ==
    /\ Len(listing) < MaxFiles
    /\ \E f \in candidates \ FileSet, i \in 0..Len(listing) :
        listing' = SubSeq(listing, 1, i) \o <<f>> \o SubSeq(listing, i + 1, Len(listing))
    /\ vcall' = NoCall
    /\ bcall' = NoCall
    /\ UNCHANGED <<libraries, registry, objects, texts, rcall>>

CreateFile == CreateFileOf(FileCandidates)

DeleteFile ==
    /\ \E i \in 1..Len(listing) :
        listing' = SubSeq(listing, 1, i - 1) \o SubSeq(listing, i + 1, Len(listing))
    /\ vcall' = NoCall
    /\ bcall' = NoCall
    /\ UNCHANGED <<libraries, registry, objects, texts, rcall>>

FindAllVersions ==
    /\ vcall = NoCall
    /\ \E p \in FileInputs :
        vcall' = VCall("find_all_versions", p, None, find_all_versions(p))
    /\ UNCHANGED <<listing, libraries, registry, bcall, objects, texts, rcall>>

GetLatestVersion ==
    /\ vcall = NoCall
    /\ \E p \in FileInputs :
        vcall' = VCall("get_latest_version", p, None, get_latest_version(p))
    /\ UNCHANGED <<listing, libraries, registry, bcall, objects, texts, rcall>>

HasNewerVersion ==
    /\ vcall = NoCall
    /\ \E p \in FileInputs :
        vcall' = VCall("has_newer_version", p, None, has_newer_version(p))
    /\ UNCHANGED <<listing, libraries, registry, bcall, objects, texts, rcall>>

(***************************************************************************)
(* The library operators                                                   *)
(***************************************************************************)

LibPathChoices == {
    <<"S", "/", "S", ".", "b">>,
    <<"P", "/", "P", ".", "b">>,
    <<"$", "X", "/", "P", ".", "b">> }

LibFileCandidates == {
    <<"S", "/", "S", ".", "b">>,
    <<"P", "/", "P", ".", "b">> }

SearchStrings == { <<>>, <<"S">>, <<"S", "/">> }

ReplaceStrings == { <<"P">> }

RelocateTargets == { <<"P", "/", "P", ".", "b">> }

CreateLibFile == CreateFileOf(LibFileCandidates)

\* the host drops a library; the library list is not told
RemoveLibrary ==
    /\ \E n \in DOMAIN libraries :
        libraries' = [m \in DOMAIN libraries \ {n} |-> libraries[m]]
    /\ bcall' = NoCall
    /\ UNCHANGED <<vcall, listing, registry, objects, texts, rcall>>

\* the checkbox of a row of the library list
ToggleSelected ==
    /\ \E i \in 1..Len(registry) :
        registry' = [registry EXCEPT ![i].selected = ~@]
    /\ bcall' = NoCall
    /\ UNCHANGED <<vcall, listing, libraries, objects, texts, rcall>>

UpdateLibraryList ==
    /\ registry' = update_library_list(libraries)
    /\ bcall' = [op |-> "update_library_list", before |-> libraries,
                 registry_before |-> registry, result |-> "FINISHED"]
    /\ UNCHANGED <<vcall, listing, libraries, objects, texts, rcall>>

BatchRelink ==
    \E search_string \in SearchStrings, replace_string \in ReplaceStrings :
        LET selected_libs == SelectSeq(registry, LAMBDA lib : lib.selected)
            start == [libs |-> libraries, success_count |-> 0, failed_count |-> 0,
                      relinked |-> {}, failed |-> {}, skipped |-> {}]
            end == IF search_string = <<>> \/ selected_libs = <<>> THEN start
                   ELSE RelinkLoop(selected_libs, 1, start, search_string, replace_string)
            cancelled == search_string = <<>> \/ selected_libs = <<>>
        IN  /\ libraries' = end.libs
            /\ registry' = IF cancelled THEN registry ELSE update_library_list(end.libs)
            /\ bcall' = [op |-> "batch_relink",
                         search_string |-> search_string,
                         replace_string |-> replace_string,
                         selected |-> { selected_libs[i].library_name :
                                          i \in 1..Len(selected_libs) },
                         before |-> libraries,
                         success_count |-> end.success_count,
                         failed_count |-> end.failed_count,
                         relinked |-> end.relinked,
                         failed |-> end.failed,
                         skipped |-> end.skipped,
                         reported_failed |-> IF end.failed_count > 0
                                             THEN end.failed_count ELSE None,
                         result |-> IF cancelled THEN "CANCELLED" ELSE "FINISHED"]
            /\ UNCHANGED <<vcall, listing, objects, texts, rcall>>

SearchDirectories == { <<>>, <<"P">>, <<"Q">> }

\* PROREF_OT_BatchSearchFolder.execute; its message gives the success count only
BatchSearchFolder ==
    \E directory \in SearchDirectories, recursive \in BOOLEAN :
        LET selected_libs == SelectSeq(registry, LAMBDA lib : lib.selected)
            cancelled == directory = <<>> \/ ~Exists(directory) \/ selected_libs = <<>>
            start == [libs |-> libraries, success_count |-> 0, relinked |-> {},
                      failed |-> {}]
        IN  \E end \in { IF cancelled THEN start
                         ELSE SearchLoop(selected_libs, 1, start, directory, recursive) } :
            /\ libraries' = end.libs
            /\ registry' = IF cancelled THEN registry ELSE update_library_list(end.libs)
            /\ bcall' = [op |-> "batch_search_folder",
                         directory |-> directory,
                         recursive |-> recursive,
                         selected |-> { selected_libs[i].library_name :
                                          i \in 1..Len(selected_libs) },
                         before |-> libraries,
                         success_count |-> end.success_count,
                         relinked |-> end.relinked,
                         failed |-> end.failed,
                         reported_failed |-> None,
                         result |-> IF cancelled THEN "CANCELLED" ELSE "FINISHED"]
            /\ UNCHANGED <<vcall, listing, objects, texts, rcall>>

\* PROREF_OT_BatchReloadLibraries.execute of batch_operations.py
BatchReloadLibraries ==
    LET selected_libs == SelectSeq(registry, LAMBDA lib : lib.selected)
        cancelled == selected_libs = <<>>
        start == [libs |-> libraries, success_count |-> 0, failed_count |-> 0,
                  reloaded |-> {}, failed |-> {}]
    IN  \E end \in { IF cancelled THEN start ELSE ReloadLoop(selected_libs, 1, start) } :
        /\ registry' = IF cancelled THEN registry ELSE update_library_list(libraries)
        /\ bcall' = [op |-> "batch_reload_libraries",
                     selected |-> { selected_libs[i].library_name :
                                      i \in 1..Len(selected_libs) },
                     before |-> libraries,
                     success_count |-> end.success_count,
                     failed_count |-> end.failed_count,
                     reloaded |-> end.reloaded,
                     failed |-> end.failed,
                     reported_failed |-> IF end.failed_count > 0
                                         THEN end.failed_count ELSE None,
                     result |-> IF cancelled THEN "CANCELLED" ELSE "FINISHED"]
        /\ UNCHANGED <<vcall, listing, libraries, objects, texts, rcall>>

\* PROREF_OT_RelocateLibrary.execute
RelocateLibrary ==
    \E library_name \in LibNames \cup {""}, filepath \in RelocateTargets :
        LET found == library_name # "" /\ library_name \in DOMAIN libraries
            r == IF found THEN relocate_library(libraries, library_name, filepath)
                 ELSE [libs |-> libraries, ok |-> FALSE]
        IN  /\ libraries' = r.libs
            /\ bcall' = [op |-> "relocate_library",
                         library_name |-> library_name,
                         filepath |-> filepath,
                         before |-> libraries,
                         found |-> found,
                         result |-> IF r.ok THEN "FINISHED" ELSE "CANCELLED"]
            /\ UNCHANGED <<vcall, listing, registry, objects, texts, rcall>>

\* HeadlessHandler.auto_fix_broken_links
AutoFixBrokenLinks ==
    \E report_only \in BOOLEAN :
        LET start == [libs |-> libraries, total |-> 0, fixed |-> 0, missing |-> 0,
                      already_ok |-> 0, reloads |-> {}]
            end == AutoFixLoop(LiveLibraries, 1, start, report_only)
        IN  /\ libraries' = end.libs
            /\ bcall' = [op |-> "auto_fix_broken_links",
                         report_only |-> report_only,
                         before |-> libraries,
                         stats |-> [total |-> end.total, fixed |-> end.fixed,
                                    missing |-> end.missing,
                                    already_ok |-> end.already_ok],
                         reloads |-> end.reloads]
            /\ UNCHANGED <<vcall, listing, registry, objects, texts, rcall>>

(***************************************************************************)
(* The version operators                                                   *)
(***************************************************************************)

\* VersionUtils.get_version_info: the fields that the operators read
get_version_info(filepath) ==
    Then(extract_version(filepath), LAMBDA current_version :
    Then(get_latest_version(filepath), LAMBDA latest :
      [current_version |-> current_version,
       latest_version |-> latest.version,
       has_newer |-> /\ current_version # None
                     /\ latest.version # None
                     /\ latest.version > current_version]))

\* PROREF_OT_DetectVersions.execute: the library list after the call
detect_versions(reg, libs) ==
    [i \in 1..Len(reg) |->
        IF reg[i].library_name \notin DOMAIN libs THEN reg[i]
        ELSE Then(get_version_info(libs[reg[i].library_name].filepath),
                  LAMBDA version_info :
               IF version_info.current_version # None
               THEN [reg[i] EXCEPT !.version_number = version_info.current_version,
                                   !.has_newer_version = version_info.has_newer]
               ELSE [reg[i] EXCEPT !.version_number = 0,
                                   !.has_newer_version = FALSE])]

\* the loop of PROREF_OT_BumpToLatest.execute over the selected items, given by
\* their places in the list; st holds the libraries, the list, the counter and the
\* libraries it counted
RECURSIVE BumpLoop(_, _, _)
BumpLoop(selected_libs, i, st) ==
    IF i > Len(selected_libs) THEN st
    ELSE LET k == selected_libs[i]
             name == st.reg[k].library_name
         IN  IF name \notin DOMAIN st.libs THEN BumpLoop(selected_libs, i + 1, st)
             ELSE Then(get_latest_version(st.libs[name].filepath), LAMBDA latest :
                  IF latest.path = <<>> \/ latest.path = st.libs[name].filepath
                  THEN BumpLoop(selected_libs, i + 1, st)
                  ELSE Then(relocate_library(st.libs, name, latest.path), LAMBDA moved :
                       IF moved.ok
                       THEN BumpLoop(selected_libs, i + 1,
                              [libs |-> moved.libs,
                               reg |-> [st.reg EXCEPT
                                          ![k].version_number = latest.version,
                                          ![k].has_newer_version = FALSE],
                               success_count |-> st.success_count + 1,
                               upgraded |-> st.upgraded \cup {name}])
                       ELSE BumpLoop(selected_libs, i + 1,
                              [st EXCEPT !.libs = moved.libs])))

\* the paths of the libraries and the files of their directory
BumpPathChoices == {
    <<"d", "/", "h", "_", "v", "2", ".", "b">>,
    <<"d", "/", "h", ".", "b">> }

BumpFileCandidates == {
    <<"d", "/", "h", "_", "v", "1", ".", "b">>,
    <<"d", "/", "h", "_", "v", "1", "0", ".", "b">> }

CreateVersionFile == CreateFileOf(BumpFileCandidates)

\* PROREF_OT_DetectVersions.execute
DetectVersions ==
    /\ registry' = detect_versions(registry, libraries)
    /\ bcall' = [op |-> "detect_versions", before |-> libraries, result |-> "FINISHED"]
    /\ UNCHANGED <<vcall, listing, libraries, objects, texts, rcall>>

\* PROREF_OT_BumpToLatest.execute; its message gives the success count
BumpToLatest ==
    LET selected_libs ==
            SelectSeq([i \in 1..Len(registry) |-> i],
                      LAMBDA i : registry[i].selected /\ registry[i].has_newer_version)
        start == [libs |-> libraries, reg |-> registry, success_count |-> 0,
                  upgraded |-> {}]
    IN  \E end \in { BumpLoop(selected_libs, 1, start) } :
            /\ libraries' = end.libs
            /\ registry' = end.reg
            /\ bcall' = [op |-> "bump_to_latest",
                         selected |-> { registry[selected_libs[i]].library_name :
                                          i \in 1..Len(selected_libs) },
                         before |-> libraries,
                         registry_before |-> registry,
                         success_count |-> IF selected_libs = <<>> THEN None
                                           ELSE end.success_count,
                         upgraded |-> end.upgraded,
                         result |-> IF selected_libs = <<>> THEN "CANCELLED"
                                    ELSE "FINISHED"]
            /\ UNCHANGED <<vcall, listing, objects, texts, rcall>>

(***************************************************************************)
(* The override operators                                                  *)
(***************************************************************************)

Locked3 == <<TRUE, TRUE, TRUE>>

Partly3 == <<TRUE, FALSE, FALSE>>

Bone(name, lock_location, lock_rotation, lock_scale, constraints) ==
    [name |-> name, lock_location |-> lock_location,
     lock_rotation |-> lock_rotation, lock_scale |-> lock_scale,
     constraints |-> constraints]

Constraint(type, mute, has_target, target) ==
    [type |-> type, mute |-> mute, has_target |-> has_target, target |-> target]

ConstraintNoTarget == Constraint("COPY_ROTATION", FALSE, TRUE, FALSE)

ConstraintMuted == Constraint("IK", TRUE, TRUE, FALSE)

ConstraintLimit == Constraint("LIMIT_ROTATION", FALSE, FALSE, FALSE)

ConstraintOk == Constraint("COPY_LOCATION", FALSE, TRUE, TRUE)

BoneChoices == {
    <<>>,
    << Bone("b1", Unlocked3, Unlocked3, Unlocked3, <<>>) >>,
    << Bone("b1", Locked3, Locked3, Locked3, <<>>) >>,
    << Bone("b1", Locked3, Locked3, Locked3, <<ConstraintOk>>),
       Bone("b2", Partly3, Unlocked3, Unlocked3, <<ConstraintNoTarget, ConstraintMuted>>) >>,
    << Bone("b1", Locked3, Locked3, Partly3, <<ConstraintLimit>>),
       Bone("b2", Locked3, Locked3, Locked3, <<ConstraintNoTarget>>),
       Bone("b3", Unlocked3, Unlocked3, Unlocked3, <<>>) >> }

BodyChoices ==
    { [type |-> "MESH", pose |-> FALSE, bones |-> <<>>],
      [type |-> "ARMATURE", pose |-> FALSE, bones |-> <<>>] }
    \cup { [type |-> "ARMATURE", pose |-> TRUE, bones |-> b] : b \in BoneChoices }

OverrideChoices ==
    { [override |-> FALSE, reference |-> FALSE, library |-> "", properties |-> {},
       is_system_override |-> FALSE] }
    \cup { [override |-> TRUE, reference |-> r, library |-> l, properties |-> p,
            is_system_override |-> y] :
             r \in BOOLEAN, l \in {"", "L1"}, p \in { {}, { <<"location">> } },
             y \in BOOLEAN }

RigChoices ==
    { [proref_rig_ui |-> "", proref_original_script |-> ""],
      [proref_rig_ui |-> "ui", proref_original_script |-> ""],
      [proref_rig_ui |-> "ui", proref_original_script |-> "orig"] }

TextChoices == { {}, {"orig"}, {"ui", "orig"} }

Object(ov, body, rig, children) ==
    [override |-> ov.override, reference |-> ov.reference, library |-> ov.library,
     properties |-> ov.properties, is_system_override |-> ov.is_system_override,
     type |-> body.type, pose |-> body.pose, bones |-> body.bones,
     proref_rig_ui |-> rig.proref_rig_ui,
     proref_original_script |-> rig.proref_original_script,
     children |-> children]

\* what the root object "A" may have as its child "B"
ChildChoices == {
    Object([override |-> TRUE, reference |-> TRUE, library |-> "L1",
            properties |-> {}, is_system_override |-> TRUE],
           [type |-> "ARMATURE", pose |-> TRUE,
            bones |-> << Bone("b1", Locked3, Locked3, Locked3, <<ConstraintOk>>) >>],
           [proref_rig_ui |-> "ui", proref_original_script |-> "orig"], <<>>),
    Object([override |-> FALSE, reference |-> FALSE, library |-> "",
            properties |-> {}, is_system_override |-> FALSE],
           [type |-> "MESH", pose |-> FALSE, bones |-> <<>>],
           [proref_rig_ui |-> "", proref_original_script |-> ""], <<>>) }

ObjectNames == {"A", "B"}

\* a call of OverrideValidator.check_override_health on an object
CheckOverrideHealth ==
    /\ \E name \in DOMAIN objects :
        rcall' = [op |-> "check_override_health", object |-> name,
                  report |-> check_override_health(libraries, objects[name]),
                  after_repair |-> /\ rcall.op = "repair_override"
                                   /\ rcall.object = name
                                   /\ rcall.ran]
    /\ UNCHANGED <<vcall, listing, libraries, registry, bcall, objects, texts>>

\* PROREF_OT_HealthCheck.execute
HealthCheck ==
    /\ \E r \in { health_check(objects, libraries) } :
        rcall' = [op |-> "health_check", health_checks |-> r.health_checks,
                  healthy_count |-> r.healthy_count,
                  warning_count |-> r.warning_count,
                  error_count |-> r.error_count]
    /\ UNCHANGED <<vcall, listing, libraries, registry, bcall, objects, texts>>

\* a call of OverrideValidator.find_broken_overrides
FindBrokenOverrides ==
    /\ rcall' = [op |-> "find_broken_overrides",
                 broken |-> find_broken_overrides(objects, libraries)]
    /\ UNCHANGED <<vcall, listing, libraries, registry, bcall, objects, texts>>

\* PROREF_OT_RepairOverride.execute; consecutive says that the call before this one
\* was a repair of the same object that ran
RepairOverride ==
    \E object_name \in ObjectNames \cup {"Z"} :
        \E r \in { repair_override(objects, libraries, texts, object_name) } :
            /\ objects' = r.objs
            /\ rcall' = [op |-> "repair_override", object |-> object_name,
                         before |-> objects, repairs |-> r.repairs,
                         errors |-> r.errors, ran |-> r.ran, result |-> r.result,
                         report |-> r.report,
                         consecutive |-> /\ rcall.op = "repair_override"
                                         /\ rcall.object = object_name
                                         /\ rcall.ran]
            /\ UNCHANGED <<vcall, listing, libraries, registry, bcall, texts>>

(***************************************************************************)
(* Calls of resolve_environment_path                                       *)
(***************************************************************************)

MaxPathLen == 4

PathChars == { "$", "X", "Y", "{", "}", "~", "/" }

RECURSIVE PathsUpTo(_)
PathsUpTo(n) ==
    IF n = 0 THEN { <<>> }
    ELSE LET shorter == PathsUpTo(n - 1)
         IN  shorter \cup { Append(q, c) : q \in shorter, c \in PathChars }

PathInputs == PathsUpTo(MaxPathLen)

ResolveEnvironmentPath ==
    /\ vcall.op = "input"
    /\ vcall' = VCall("resolve_environment_path", vcall.filepath, None,
                      resolve_environment_path(vcall.filepath))
    /\ UNCHANGED <<listing, libraries, registry, bcall, objects, texts, rcall>>

(***************************************************************************)
(* Isolation of the rig UI script of an instance                           *)
(*                                                                         *)
(* core/script_injector.py is not among the sources; create_isolated_script*)
(* and find_rig_ui_script follow the description of ScriptIsolationManager.*)
(* A script name is the sequence of its parts: the name of the original,   *)
(* the instance, and the numeric suffix when there is one.                 *)
(***************************************************************************)

MaxScripts == 5

\* the lowest n >= 1 for which base with the suffix n is no script
RECURSIVE LowestUnusedSuffix(_, _, _)
LowestUnusedSuffix(base, existing, n) ==
    IF base \o <<ToString(n)>> \notin existing THEN n
    ELSE LowestUnusedSuffix(base, existing, n + 1)

\* RigUIScriptInjector.create_isolated_script: the name of the duplicate
create_isolated_script(original_script, unique_name, existing) ==
    LET base == original_script \o <<unique_name>>
    IN  IF base \notin existing THEN base
        ELSE base \o <<ToString(LowestUnusedSuffix(base, existing, 1))>>

\* the two custom properties stored the wrong way round
RigUIReferenceSwapped(isolated_script, original_script) ==
    [proref_rig_ui |-> original_script, proref_original_script |-> isolated_script]

\* PROREF_OT_SmartLink._handle_rig_ui, Store reference
RigUIReference(isolated_script, original_script) ==
    [proref_rig_ui |-> isolated_script, proref_original_script |-> original_script]

\* PROREF_OT_SmartLink._handle_rig_ui on override_obj, find_rig_ui_script having
\* found original_script (<<>> for None): the objects, the scripts and the
\* isolated script it returns (<<>> for None)
_handle_rig_ui(objs, txts, override_obj, unique_name, original_script) ==
    LET armature == find_armature_in_hierarchy(objs, override_obj)
        isolated_script == create_isolated_script(original_script, unique_name, txts)
        stored == RigUIReference(isolated_script, original_script)
    IN  IF armature = "" \/ original_script = <<>>
        THEN [objs |-> objs, txts |-> txts, isolated |-> <<>>]
        ELSE [objs |-> [objs EXCEPT
                          ![armature].proref_rig_ui = stored.proref_rig_ui,
                          ![armature].proref_original_script =
                              stored.proref_original_script],
              txts |-> txts \cup {isolated_script},
              isolated |-> isolated_script]

ScriptChoices == {
    <<"ui_script">>, <<"ui_script", "A">>, <<"ui_script", "A", "1">>,
    <<"ui_script", "B">>, <<"other">> }

\* _handle_rig_ui for the instance whose override is the object instance
HandleRigUI ==
    /\ Cardinality(texts) < MaxScripts
    /\ \E instance \in DOMAIN objects, original_script \in texts \cup {<<>>} :
        \E r \in { _handle_rig_ui(objects, texts, instance, instance, original_script) } :
            /\ objects' = r.objs
            /\ texts' = r.txts
            /\ rcall' = [op |-> "handle_rig_ui", object |-> instance,
                         original_script |-> original_script,
                         isolated |-> r.isolated,
                         before |-> texts,
                         others |-> { objects[o].proref_rig_ui :
                                        o \in DOMAIN objects \ {instance} }]
    /\ UNCHANGED <<vcall, listing, libraries, registry, bcall>>

(***************************************************************************)
(* Unique names of the instances                                           *)
(***************************************************************************)

\* f"{counter:03d}"
Format03d(n) ==
    IF n < 10 THEN <<"0", "0">> \o DecimalDigits(n)
    ELSE IF n < 100 THEN <<"0">> \o DecimalDigits(n)
    ELSE DecimalDigits(n)

\* the loop of LibraryUtils.get_unique_name
RECURSIVE UniqueNameLoop(_, _, _, _)
UniqueNameLoop(base_name, existing_names, name, counter) ==
    IF name \notin existing_names THEN name
    ELSE UniqueNameLoop(base_name, existing_names,
                        base_name \o <<".">> \o Format03d(counter), counter + 1)

\* get_unique_name that tries the suffix .001 only
get_unique_name_first_suffix(base_name, existing_names) ==
    IF base_name \notin existing_names THEN base_name
    ELSE base_name \o <<".">> \o Format03d(1)

\* LibraryUtils.get_unique_name
get_unique_name(base_name, existing_names) ==
    UniqueNameLoop(base_name, existing_names, base_name, 1)

MaxNames == 4

\* the names of bpy.data.objects and the names of the linked collections
NameChoices == {
    <<"c">>, <<"c", ".", "0", "0", "1">>, <<"c", ".", "0", "0", "2">>,
    <<"c", ".", "0", "0", "3">>, <<"c", ".", "1">>, <<"d">>,
    <<"c", ".", "0", "0", "1", ".", "0", "0", "1">> }

GetUniqueName ==
    /\ vcall.op = "input"
    /\ vcall' = [op |-> "get_unique_name", base_name |-> vcall.base_name,
                 existing_names |-> vcall.existing_names,
                 result |-> get_unique_name(vcall.base_name, vcall.existing_names)]
    /\ UNCHANGED <<listing, libraries, registry, bcall, objects, texts, rcall>>

(***************************************************************************)
(* Specifications                                                          *)
(***************************************************************************)

NoLibraries == << >>

NoObjects == << >>

InitFiles ==
    /\ vcall = NoCall
    /\ listing = <<>>
    /\ libraries = NoLibraries
    /\ registry = <<>>
    /\ bcall = NoCall
    /\ objects = NoObjects
    /\ texts = {}
    /\ rcall = NoCall

\* the arguments of a call are drawn here; the call is one of the actions
InitVersion ==
    /\ \E p \in VersionInputs, n \in VersionNumbers :
        vcall = VCall("input", p, n, None)
    /\ listing = <<>>
    /\ libraries = NoLibraries
    /\ registry = <<>>
    /\ bcall = NoCall
    /\ objects = NoObjects
    /\ texts = {}
    /\ rcall = NoCall

NextVersion ==
    \/ ExtractVersion
    \/ GetVersionPattern
    \/ GetBaseName
    \/ BuildVersionPath

\* the functions of VersionUtils that only read the path
SpecVersion == InitVersion /\ [][NextVersion]_vars

NextFiles ==
    \/ CreateFile
    \/ DeleteFile
    \/ FindAllVersions
    \/ GetLatestVersion
    \/ HasNewerVersion

\* the functions of VersionUtils that scan the directory of the path
SpecFiles == InitFiles /\ [][NextFiles]_vars

InitBatch ==
    /\ vcall = NoCall
    /\ listing = <<>>
    /\ \E present \in SUBSET LibNames :
        \E paths \in [present -> LibPathChoices] :
            libraries = [n \in present |-> [filepath |-> paths[n]]]
    /\ registry = <<>>
    /\ bcall = NoCall
    /\ objects = NoObjects
    /\ texts = {}
    /\ rcall = NoCall

NextBatch ==
    \/ CreateLibFile
    \/ DeleteFile
    \/ RemoveLibrary
    \/ ToggleSelected
    \/ UpdateLibraryList
    \/ BatchRelink
    \/ BatchSearchFolder
    \/ BatchReloadLibraries
    \/ RelocateLibrary
    \/ AutoFixBrokenLinks

\* the library list, the batch relink, the relocation and the headless link fixer
SpecBatch == InitBatch /\ [][NextBatch]_vars

InitRepair ==
    /\ vcall = NoCall
    /\ bcall = NoCall
    /\ rcall = NoCall
    /\ registry = <<>>
    /\ libraries = [n \in {"L1"} |-> [filepath |-> <<"P", "/", "P", ".", "b">>]]
    /\ listing \in { <<>>, << <<"P", "/", "P", ".", "b">> >> }
    /\ texts \in TextChoices
    /\ \E ov \in OverrideChoices, body \in BodyChoices, rig \in RigChoices :
        /\ (ov.library # "" => ov.reference)
        /\ \/ objects = [n \in {"A"} |-> Object(ov, body, rig, <<>>)]
           \/ \E child \in ChildChoices :
                objects = [n \in ObjectNames |->
                             IF n = "A" THEN Object(ov, body, rig, <<"B">>)
                             ELSE child]

NextRepair ==
    \/ CheckOverrideHealth
    \/ HealthCheck
    \/ FindBrokenOverrides
    \/ RepairOverride

\* the health check and the repair of overrides
SpecRepair == InitRepair /\ [][NextRepair]_vars

(***************************************************************************)
(* Properties of the health check and the repair                           *)
(***************************************************************************)

\* C1: the report of check_override_health on an override whose reference is not
\* set has is_healthy false and the issue "Override reference is missing"
C1_NullReferenceUnhealthy ==
    (/\ rcall.op = "check_override_health"
     /\ objects[rcall.object].override
     /\ ~objects[rcall.object].reference) =>
        /\ ~rcall.report.is_healthy
        /\ \E i \in 1..Len(rcall.report.issues) :
            rcall.report.issues[i] = <<"Override", "reference", "is", "missing">>

\* such a report on an armature with editable properties, bones and a script
C1_Witness ==
    /\ rcall.op = "check_override_health"
    /\ objects[rcall.object].override
    /\ ~objects[rcall.object].reference
    /\ objects[rcall.object].properties # {}
    /\ Len(objects[rcall.object].bones) > 1
    /\ objects[rcall.object].proref_rig_ui # ""
    /\ ~rcall.report.is_healthy

\* C2: a repair that runs immediately after a repair of the same object leaves
\* every object as it found it: the editable properties, the system override flag,
\* the locks of every bone and the two script references
C2_RepairIdempotent ==
    (rcall.op = "repair_override" /\ rcall.consecutive /\ rcall.ran) =>
        objects = rcall.before

\* C3: a repair that runs immediately after a repair of the same object lists no
\* repair
C3_SecondRepairReportsNothing ==
    (rcall.op = "repair_override" /\ rcall.consecutive /\ rcall.ran) =>
        rcall.repairs = <<>>

\* all nine lock flags of the bone are set
AllNineLocked(bone) ==
    \A k \in 1..3 :
        bone.lock_location[k] /\ bone.lock_rotation[k] /\ bone.lock_scale[k]

\* C16: the rig check counts a bone as locked only when all nine lock flags are
\* set, and warns of many locked bones exactly when more than half are so locked
C16_LockedMeansAllNine ==
    (rcall.op = "check_override_health" /\ rcall.report.info.bone_count # None) =>
        LET bones == objects[rcall.object].bones
            fully == Cardinality({ i \in 1..Len(bones) : AllNineLocked(bones[i]) })
        IN  /\ rcall.report.info.locked_bone_count = fully
            /\ (\E i \in 1..Len(rcall.report.warnings) :
                    rcall.report.warnings[i][1] = "Many")
               <=> (2 * fully > Len(bones))

\* C17: every repair that runs applies the editability expansion, in the pass
\* driven by the diagnosis or else in the supplementary pass: after the repair
\* the expansion has no property left to add
C17_EditabilityPassRuns ==
    (rcall.op = "repair_override" /\ rcall.ran) =>
        make_all_properties_editable(objects, rcall.object).objs = objects

\* the items of the message that a repair reports
ReportedItems == { rcall.report.items[k] : k \in 1..Len(rcall.report.items) }

\* the issue types that the diagnosis gave for the repaired object
DiagnosedBefore ==
    LET issues == diagnose_common_issues(libraries, rcall.before[rcall.object])
    IN  { issues[k] : k \in 1..Len(issues) }

\* C18: when the diagnosis of the repaired object has the missing reference or the
\* missing library file, the message of the repair gives the reason why it cannot
\* be repaired automatically, also when repairs were made
C18_ReasonNeverDropped ==
    (rcall.op = "repair_override" /\ rcall.ran) =>
        /\ "MISSING_REFERENCE" \in DiagnosedBefore =>
            <<"Cannot", "auto-repair", "missing", "reference">> \in ReportedItems
        /\ "LIBRARY_NOT_FOUND" \in DiagnosedBefore =>
            <<"Library", "file", "missing", "-", "use", "Relocate">> \in ReportedItems

\* C19: the health check of an override with an intact reference, made right after
\* its repair, gives none of the warnings "No override properties", "Many bones
\* locked" and "N constraints missing targets"
C19_WarningsRepaired ==
    (/\ rcall.op = "check_override_health"
     /\ rcall.after_repair
     /\ objects[rcall.object].reference) =>
        \A i \in 1..Len(rcall.report.warnings) :
            LET warning == rcall.report.warnings[i]
            IN  /\ warning[1] # "No"
                /\ warning[1] # "Many"
                /\ warning[2] # "constraints"

\* C20: the repair of an armature clears every lock of exactly the bones that had
\* all nine lock flags set, lists their number among the repairs, changes no other
\* bone, and leaves no bone with all nine flags set
C20_RigPassClearsFullyLocked ==
    (/\ rcall.op = "repair_override" /\ rcall.ran
     /\ rcall.before[rcall.object].type = "ARMATURE"
     /\ rcall.before[rcall.object].pose) =>
        LET old == rcall.before[rcall.object].bones
            new == objects[rcall.object].bones
            cleared == { b \in 1..Len(old) : AllNineLocked(old[b]) }
            unlocked == <<"Unlocked", ToString(Cardinality(cleared)),
                          "fully-locked", "bones">>
        IN  /\ Len(new) = Len(old)
            /\ \A b \in 1..Len(old) :
                IF b \in cleared
                THEN new[b] = [old[b] EXCEPT !.lock_location = <<FALSE, FALSE, FALSE>>,
                                             !.lock_rotation = <<FALSE, FALSE, FALSE>>,
                                             !.lock_scale = <<FALSE, FALSE, FALSE>>]
                ELSE new[b] = old[b]
            /\ \A b \in 1..Len(new) : ~AllNineLocked(new[b])
            /\ \A k \in 1..Len(rcall.repairs) :
                rcall.repairs[k][1] = "Unlocked" =>
                    rcall.repairs[k] = unlocked /\ cleared # {}
            /\ cleared # {} => \E k \in 1..Len(rcall.repairs) : rcall.repairs[k] = unlocked

\* a rig with a fully locked bone and a partly locked bone was repaired
C20_Witness ==
    /\ rcall.op = "repair_override" /\ rcall.ran
    /\ rcall.before[rcall.object].type = "ARMATURE"
    /\ \E b \in 1..Len(rcall.before[rcall.object].bones) :
        /\ AllNineLocked(rcall.before[rcall.object].bones[b])
        /\ ~BoneLocked(objects[rcall.object].bones[b])
    /\ \E b \in 1..Len(rcall.before[rcall.object].bones) :
        /\ ~AllNineLocked(rcall.before[rcall.object].bones[b])
        /\ BoneLocked(objects[rcall.object].bones[b])
    /\ <<"Unlocked", "1", "fully-locked", "bones">> \in ReportedItems

\* the rig of the repaired object, "" when it has none
RepairedRig == find_armature_in_hierarchy(rcall.before, rcall.object)

\* C21: after the repair of an object that has a rig, the script reference of the
\* rig is absent or names a script that exists: a dangling reference became the
\* recorded original script when that script exists and was removed otherwise, and
\* a reference to an existing script is as it was
C21_RigUIReferenceRepaired ==
    (rcall.op = "repair_override" /\ rcall.ran /\ RepairedRig # "") =>
        LET old == rcall.before[RepairedRig]
            new == objects[RepairedRig]
        IN  /\ new.proref_rig_ui = "" \/ new.proref_rig_ui \in texts
            /\ IF old.proref_rig_ui = "" \/ old.proref_rig_ui \in texts
               THEN new.proref_rig_ui = old.proref_rig_ui
               ELSE IF old.proref_original_script \in texts
               THEN new.proref_rig_ui = old.proref_original_script
               ELSE new.proref_rig_ui = ""

\* the isolated script "ui" is gone and the repair points the rig at "orig"
C21_Witness ==
    /\ rcall.op = "repair_override" /\ rcall.ran /\ RepairedRig # ""
    /\ rcall.before[RepairedRig].proref_rig_ui = "ui"
    /\ "ui" \notin texts
    /\ rcall.before[RepairedRig].proref_original_script = "orig"
    /\ objects[RepairedRig].proref_rig_ui = "orig"

\* the number of items of the health check list with the status
StatusCount(status) ==
    Cardinality({ k \in 1..Len(rcall.health_checks) :
                    rcall.health_checks[k].health_status = status })

\* C22: a report is unhealthy exactly when it has an issue, whatever its warnings;
\* the health check lists every override once, as ERROR when it is unhealthy, as
\* WARNING when it is healthy with a warning and as HEALTHY otherwise, and its three
\* counts are the numbers of these and add up to the number of overrides
C22_SeverityAggregation ==
    /\ rcall.op = "check_override_health" =>
        (rcall.report.is_healthy <=> rcall.report.issues = <<>>)
    /\ rcall.op = "health_check" =>
        LET overrides == { n \in DOMAIN objects : objects[n].override }
            items == rcall.health_checks
        IN  /\ Len(items) = Cardinality(overrides)
            /\ { items[k].object_name : k \in 1..Len(items) } = overrides
            /\ \A k \in 1..Len(items) :
                LET report == check_override_health(libraries, objects[items[k].object_name])
                IN  items[k].health_status =
                        IF report.issues # <<>> THEN "ERROR"
                        ELSE IF report.warnings # <<>> THEN "WARNING"
                        ELSE "HEALTHY"
            /\ rcall.healthy_count = StatusCount("HEALTHY")
            /\ rcall.warning_count = StatusCount("WARNING")
            /\ rcall.error_count = StatusCount("ERROR")
            /\ rcall.healthy_count + rcall.warning_count + rcall.error_count
                   = Cardinality(overrides)

\* two overrides were checked: one is unhealthy with warnings, the other is not so
C22_Witness ==
    /\ rcall.op = "health_check"
    /\ Len(rcall.health_checks) = 2
    /\ rcall.error_count = 1
    /\ rcall.warning_count = 1

\* C30: find_broken_overrides returns an override exactly when
\* check_override_health reports it as not healthy, every issue it lists for the
\* override is one that the diagnosis gives with the severity ERROR, and it never
\* lists the missing reference together with the missing library file
C30_BrokenAgreesWithHealth ==
    rcall.op = "find_broken_overrides" =>
        LET returned == { rcall.broken[k].object : k \in 1..Len(rcall.broken) }
        IN  /\ \A n \in DOMAIN objects :
                objects[n].override =>
                    (n \in returned <=>
                        ~check_override_health(libraries, objects[n]).is_healthy)
            /\ \A n \in returned : objects[n].override
            /\ \A k \in 1..Len(rcall.broken) :
                LET errors == { rcall.broken[k].errors[e] :
                                  e \in 1..Len(rcall.broken[k].errors) }
                IN  /\ errors # {}
                    /\ errors \subseteq {"MISSING_REFERENCE", "LIBRARY_NOT_FOUND"}
                    /\ errors # {"MISSING_REFERENCE", "LIBRARY_NOT_FOUND"}

\* of two overrides, one that has only a warning is not returned and the other,
\* whose library file is missing, is
C30_Witness ==
    /\ rcall.op = "find_broken_overrides"
    /\ Len(rcall.broken) = 1
    /\ rcall.broken[1].errors = <<"LIBRARY_NOT_FOUND">>
    /\ \E n \in DOMAIN objects :
        /\ objects[n].override
        /\ objects[n].properties = {}
        /\ check_override_health(libraries, objects[n]).is_healthy

(***************************************************************************)
(* Properties of the version utilities                                     *)
(***************************************************************************)

\* C4 (as claimed): extract_version(build_version_path(p, n)) = n for every base
\* path p and every non-negative n
C4_RoundTrip ==
    vcall.op = "build_version_path" =>
        extract_version(vcall.result) = vcall.version_number

\* a separator character, then v, ver or version in any letter case, then a digit
VersionWords == { <<"v">>, <<"v", "e", "r">>, <<"v", "e", "r", "s", "i", "o", "n">> }

HasVersionToken(name) ==
    \E i \in 1..Len(name), w \in VersionWords :
        /\ i + Len(w) + 1 <= Len(name)
        /\ name[i] \in {".", "_", "-"}
        /\ \A k \in 1..Len(w) : Lower(name[i + k]) = w[k]
        /\ IsDigit(name[i + Len(w) + 1])

\* one of the five separators _v, _ver, _version, .v, -v, then a digit
ListedSeparators == {
    <<"_", "v">>, <<"_", "v", "e", "r">>, <<"_", "v", "e", "r", "s", "i", "o", "n">>,
    <<".", "v">>, <<"-", "v">> }

HasListedToken(name) ==
    \E i \in 1..Len(name), t \in ListedSeparators :
        /\ i + Len(t) <= Len(name)
        /\ \A k \in 1..Len(t) : Lower(name[i + k - 1]) = t[k]
        /\ IsDigit(name[i + Len(t)])

C6_SortedAndLatest ==
    /\ vcall.op = "find_all_versions" =>
        \A i, j \in 1..Len(vcall.result) :
            i < j => vcall.result[i].version <= vcall.result[j].version
    /\ vcall.op = "get_latest_version" =>
        LET all == find_all_versions(vcall.filepath)
        IN  IF all = <<>>
            THEN vcall.result = [path |-> vcall.filepath, version |-> None]
            ELSE /\ vcall.result = all[Len(all)]
                 /\ \A i \in 1..Len(all) : all[i].version <= vcall.result.version

\* v2 is listed before v10 although the directory yields v10 first
C6_Witness ==
    /\ vcall.op = "find_all_versions"
    /\ listing = << <<"d", "/", "h", "_", "v", "1", "0", ".", "b">>,
                    <<"d", "/", "h", "_", "v", "0", "2", ".", "b">>,
                    <<"d", "/", "h", "_", "v", "2", ".", "b">> >>
    /\ Len(vcall.result) = 3
    /\ vcall.result[1].version = 2
    /\ vcall.result[3].version = 10

\* C7: extract_version returns the number captured by the first pattern of
\* VERSION_PATTERNS that matches the file name, wherever the tokens stand in the
\* name, and the directory part of the path plays no role
C7_PatternPriority ==
    vcall.op = "extract_version" =>
        LET name == Basename(vcall.filepath)
            matching == { k \in 1..NumPatterns : Search(VERSION_PATTERNS[k], name) # 0 }
        IN  /\ matching = {} => vcall.result = None
            /\ \A k \in matching :
                (\A j \in matching : k <= j) =>
                    vcall.result = ParseInt(Group1(VERSION_PATTERNS[k], name,
                                                   Search(VERSION_PATTERNS[k], name)))
            /\ vcall.result = extract_version(name)

\* in d_v9/_ver2_v1 the _ver token comes first, and the _v token wins
C7_Witness ==
    /\ vcall.op = "extract_version"
    /\ vcall.filepath = <<"d", "_", "v", "9", "/", "_", "v", "e", "r", "2", "_", "v", "1">>
    /\ vcall.result = 1

\* C14: find_all_versions gives the one entry (path, none) for every path on which
\* no version pattern is detected, whether or not the file or its directory
\* exists, and gives no entry without a version for a path that has a version
C14_VersionlessSingleEntry ==
    vcall.op = "find_all_versions" =>
        IF get_version_pattern(vcall.filepath) = <<>>
        THEN vcall.result = << [path |-> vcall.filepath, version |-> None] >>
        ELSE \A i \in 1..Len(vcall.result) : vcall.result[i].version # None

\* C27: for a file that is on disk and has a version, find_all_versions lists the
\* file itself, and get_latest_version gives a version that is not lower than the
\* version of the file
C27_OwnFileListed ==
    /\ (/\ vcall.op = "find_all_versions"
        /\ vcall.filepath \in FileSet
        /\ extract_version(vcall.filepath) # None) =>
            \E i \in 1..Len(vcall.result) : vcall.result[i].path = vcall.filepath
    /\ (/\ vcall.op = "get_latest_version"
        /\ vcall.filepath \in FileSet
        /\ extract_version(vcall.filepath) # None) =>
            vcall.result.version >= extract_version(vcall.filepath)

(***************************************************************************)
(* Properties of the library operators                                     *)
(***************************************************************************)

\* C8: after a batch relink that ran, every selected library whose path did not
\* contain the search string has the path it had and is counted neither as a success
\* nor as a failure, the two counters count exactly the relinked and the failed
\* libraries, and every relinked library has its former path with every occurrence
\* of the search string replaced by the replace string
C8_SkipOrReplace ==
    (bcall.op = "batch_relink" /\ bcall.result = "FINISHED") =>
        /\ \A n \in bcall.selected \cap DOMAIN bcall.before :
            ~Contains(bcall.before[n].filepath, bcall.search_string) =>
                /\ n \in DOMAIN libraries
                /\ libraries[n].filepath = bcall.before[n].filepath
                /\ n \in bcall.skipped
                /\ n \notin bcall.relinked \cup bcall.failed
        /\ bcall.success_count = Cardinality(bcall.relinked)
        /\ bcall.failed_count = Cardinality(bcall.failed)
        /\ \A n \in bcall.relinked :
            /\ Contains(bcall.before[n].filepath, bcall.search_string)
            /\ libraries[n].filepath =
                 Replace(bcall.before[n].filepath, bcall.search_string,
                         bcall.replace_string)

\* one batch relink skipped a library and relinked another
C8_Witness ==
    /\ bcall.op = "batch_relink"
    /\ bcall.result = "FINISHED"
    /\ bcall.skipped # {}
    /\ bcall.relinked # {}
    /\ \E n \in bcall.relinked :
        libraries[n].filepath # bcall.before[n].filepath

\* C9: after a batch relink every library counted as failed, and after a single
\* relocation that reported failure the library it was asked to relocate, has the
\* path it had before the attempt
C9_FailedKeepsOldPath ==
    /\ bcall.op = "batch_relink" =>
        \A n \in bcall.failed \cap DOMAIN bcall.before :
            libraries[n].filepath = bcall.before[n].filepath
    /\ (bcall.op = "relocate_library" /\ bcall.found /\ bcall.result = "CANCELLED") =>
        libraries[bcall.library_name].filepath =
            bcall.before[bcall.library_name].filepath

\* C10: after auto_fix_broken_links(report_only = True) every library has the path
\* it had before the call and no library was reloaded
C10_ReportOnlyNonMutating ==
    (bcall.op = "auto_fix_broken_links" /\ bcall.report_only) =>
        /\ libraries = bcall.before
        /\ bcall.reloads = {}

\* a report_only call found a library it could have fixed
C10_Witness ==
    /\ bcall.op = "auto_fix_broken_links"
    /\ bcall.report_only
    /\ bcall.stats.fixed > 0
    /\ bcall.stats.missing > 0

\* C11: the message of a batch command that ran gives the number of the selected
\* libraries it tried without success (the library is gone, the file was not found,
\* the relocation or the reload failed)
C11_FailuresReported ==
    (/\ bcall.op \in {"batch_relink", "batch_search_folder", "batch_reload_libraries"}
     /\ bcall.result = "FINISHED"
     /\ bcall.failed # {}) =>
        bcall.reported_failed = Cardinality(bcall.failed)

\* C15: the refreshed library list says that a library exists when its stored path
\* has a variable token and expands, as the headless auto-fix expands it, to a
\* file that exists
C15_ExistsOnExpandedPath ==
    bcall.op = "update_library_list" =>
        \A i \in 1..Len(registry) :
            (/\ Contains(registry[i].filepath, <<"$">>)
             /\ Exists(resolve_environment_path(registry[i].filepath))) =>
                registry[i].exists

\* C29: the statistics of auto_fix_broken_links, in both modes, have total equal to
\* the number of libraries and to fixed + missing + already_ok, and already_ok is
\* the number of libraries whose file was on disk
C29_StatsPartition ==
    bcall.op = "auto_fix_broken_links" =>
        /\ bcall.stats.total = Cardinality(DOMAIN bcall.before)
        /\ bcall.stats.total =
               bcall.stats.fixed + bcall.stats.missing + bcall.stats.already_ok
        /\ bcall.stats.already_ok =
               Cardinality({ n \in DOMAIN bcall.before :
                               Exists(Abspath(bcall.before[n].filepath)) })
        /\ bcall.stats.fixed >= 0 /\ bcall.stats.missing >= 0

\* two libraries, one in each of two buckets, in a call that applies the fixes
C29_Witness ==
    /\ bcall.op = "auto_fix_broken_links"
    /\ ~bcall.report_only
    /\ bcall.stats.total = 2
    /\ bcall.stats.fixed = 1
    /\ bcall.stats.already_ok = 1

(***************************************************************************)
(* Properties of the script isolation                                      *)
(***************************************************************************)

InitIsolate ==
    /\ vcall = NoCall
    /\ bcall = NoCall
    /\ rcall = NoCall
    /\ registry = <<>>
    /\ libraries = NoLibraries
    /\ listing = <<>>
    /\ texts \in { t \in SUBSET ScriptChoices : Cardinality(t) < MaxScripts - 1 }
    /\ \E bodyA \in { "ARMATURE", "MESH" }, bodyB \in { "ARMATURE", "MESH" } :
        objects = [n \in ObjectNames |->
            Object([override |-> TRUE, reference |-> TRUE, library |-> "",
                    properties |-> {}, is_system_override |-> FALSE],
                   [type |-> IF n = "A" THEN bodyA ELSE bodyB, pose |-> TRUE,
                    bones |-> <<>>],
                   [proref_rig_ui |-> <<>>, proref_original_script |-> <<>>],
                   <<>>)]

NextIsolate == HandleRigUI

\* the isolation of rig UI scripts for the instances
SpecIsolate == InitIsolate /\ [][NextIsolate]_vars

\* C12: an isolation gives a script whose name was no script before and that no
\* other object records, the object records it, and no two objects ever record
\* the same isolated script
C12_IsolatedScriptsDistinct ==
    /\ (rcall.op = "handle_rig_ui" /\ rcall.isolated # <<>>) =>
        /\ rcall.isolated \notin rcall.before
        /\ rcall.isolated \notin rcall.others
        /\ rcall.isolated \in texts
        /\ objects[rcall.object].proref_rig_ui = rcall.isolated
    /\ \A a, b \in DOMAIN objects :
        (a # b /\ objects[a].proref_rig_ui # <<>>) =>
            objects[a].proref_rig_ui # objects[b].proref_rig_ui

\* both instances isolated the same original, one of them with a suffix
C12_Witness ==
    /\ objects["A"].proref_original_script = <<"ui_script">>
    /\ objects["B"].proref_original_script = <<"ui_script">>
    /\ objects["A"].proref_rig_ui = <<"ui_script", "A", "2">>
    /\ objects["B"].proref_rig_ui = <<"ui_script", "B">>

(***************************************************************************)
(* Properties of the path expansion                                        *)
(***************************************************************************)

InitResolve ==
    /\ \E p \in PathInputs : vcall = VCall("input", p, None, None)
    /\ listing = <<>>
    /\ libraries = NoLibraries
    /\ registry = <<>>
    /\ bcall = NoCall
    /\ objects = NoObjects
    /\ texts = {}
    /\ rcall = NoCall

NextResolve == ResolveEnvironmentPath

\* the calls of resolve_environment_path
SpecResolve == InitResolve /\ [][NextResolve]_vars

\* the characters of a variable name
IsNameChar(c) == c \in { "X", "Y" }

\* the variable tokens of s: <<i, j, name>> for a "$" at i followed by a name that
\* runs to j, or by a name in braces whose closing brace is at j
VariableTokens(s) ==
    { <<i, j, SubSeq(s, i + 1, j)>> : i \in 1..Len(s), j \in 1..Len(s) } \cap
    { t \in (1..Len(s)) \X (1..Len(s)) \X Seq(PathChars) :
        /\ s[t[1]] = "$"
        /\ t[2] > t[1]
        /\ \A k \in (t[1] + 1)..t[2] : IsNameChar(s[k])
        /\ (t[2] = Len(s) \/ ~IsNameChar(s[t[2] + 1])) }

BracedTokens(s) ==
    { t \in (1..Len(s)) \X (1..Len(s)) :
        /\ t[2] > t[1] + 1
        /\ s[t[1]] = "$" /\ s[t[1] + 1] = "{" /\ s[t[2]] = "}"
        /\ \A k \in (t[1] + 2)..(t[2] - 1) : s[k] # "}" }

HasHomeToken(s) == Len(s) >= 1 /\ s[1] = "~"

\* C13: resolve_environment_path returns a path for every path; a path with no
\* variable token and no home token comes back unchanged, and a token that names
\* an undefined variable is in the result as it was written
C13_ExpansionNeverFails ==
    vcall.op = "resolve_environment_path" =>
        LET p == vcall.filepath
            r == vcall.result
        IN  /\ r \in Seq(PathChars \cup { "P" })
            /\ (VariableTokens(p) = {} /\ BracedTokens(p) = {} /\ ~HasHomeToken(p)) =>
                    r = p
            /\ \A t \in VariableTokens(p) :
                    t[3] \notin EnvNames => Contains(r, SubSeq(p, t[1], t[2]))
            /\ \A t \in BracedTokens(p) :
                    SubSeq(p, t[1] + 2, t[2] - 1) \notin EnvNames =>
                        Contains(r, SubSeq(p, t[1], t[2]))

\* a defined variable is expanded next to an undefined one, which stays
C13_Witness ==
    /\ vcall.op = "resolve_environment_path"
    /\ vcall.filepath = <<"$", "X", "$", "Y">>
    /\ vcall.result = <<"P", "$", "Y">>

(***************************************************************************)
(* Properties of the version operators                                     *)
(***************************************************************************)

InitBump ==
    /\ vcall = NoCall
    /\ listing = <<>>
    /\ \E present \in SUBSET LibNames :
        \E paths \in [present -> BumpPathChoices] :
            libraries = [n \in present |-> [filepath |-> paths[n]]]
    /\ registry = <<>>
    /\ bcall = NoCall
    /\ objects = NoObjects
    /\ texts = {}
    /\ rcall = NoCall

NextBump ==
    \/ CreateVersionFile
    \/ DeleteFile
    \/ RemoveLibrary
    \/ ToggleSelected
    \/ UpdateLibraryList
    \/ DetectVersions
    \/ BumpToLatest

\* the detection of versions and the bump to the latest version
SpecBump == InitBump /\ [][NextBump]_vars

\* C23: when a batch relink, a search of a folder, a batch reload or a bump to the
\* latest version has finished, every item of the library list has the path that
\* its library has now
C23_RegistryRefreshed ==
    (/\ bcall.op \in {"batch_relink", "batch_search_folder",
                      "batch_reload_libraries", "bump_to_latest"}
     /\ bcall.result = "FINISHED") =>
        \A i \in 1..Len(registry) :
            registry[i].library_name \in DOMAIN libraries =>
                registry[i].filepath = libraries[registry[i].library_name].filepath

Moved ==
    { n \in DOMAIN libraries : libraries[n].filepath # bcall.before[n].filepath }

C28_BumpNeverDowngrades ==
    bcall.op = "bump_to_latest" =>
        \A n \in Moved :
            extract_version(libraries[n].filepath)
                > extract_version(bcall.before[n].filepath)

(***************************************************************************)
(* Properties of the unique names                                          *)
(***************************************************************************)

InitUnique ==
    /\ \E base_name \in { <<"c">>, <<"c", ".", "0", "0", "1">> } :
        \E existing_names \in { e \in SUBSET NameChoices : Cardinality(e) <= MaxNames } :
            vcall = [op |-> "input", base_name |-> base_name,
                     existing_names |-> existing_names]
    /\ listing = <<>>
    /\ libraries = NoLibraries
    /\ registry = <<>>
    /\ bcall = NoCall
    /\ objects = NoObjects
    /\ texts = {}
    /\ rcall = NoCall

NextUnique == GetUniqueName

\* the calls of get_unique_name
SpecUnique == InitUnique /\ [][NextUnique]_vars

\* C26: get_unique_name returns a name that is not among the existing names: the
\* base name when it is not among them, and otherwise the base name with "." and
\* the three-digit least N >= 1 for which that name is not among them
C26_UniqueName ==
    vcall.op = "get_unique_name" =>
        LET suffixed(n) == vcall.base_name \o <<".">> \o Format03d(n)
        IN  /\ vcall.result \notin vcall.existing_names
            /\ IF vcall.base_name \notin vcall.existing_names
               THEN vcall.result = vcall.base_name
               ELSE \E n \in 1..(MaxNames + 1) :
                        /\ vcall.result = suffixed(n)
                        /\ Len(vcall.result) = Len(vcall.base_name) + 4
                        /\ \A k \in 1..(n - 1) : suffixed(k) \in vcall.existing_names

\* c, c.001 and c.002 exist and the name is c.003
C26_Witness ==
    /\ vcall.op = "get_unique_name"
    /\ vcall.base_name = <<"c">>
    /\ <<"c", ".", "0", "0", "2">> \in vcall.existing_names
    /\ vcall.result = <<"c", ".", "0", "0", "3">>

====
